---- MODULE Spec2Model ----
(***************************************************************************)
(* A model of the kozo containers: the circular-buffer Queue (sequential   *)
(* and under goroutines), the read/write locking of the two-set            *)
(* operations of Set and AnySet, the JSON contract of Optional and its     *)
(* accessors.                                                              *)
(***************************************************************************)
EXTENDS Integers, Sequences, FiniteSets, TLC

VARIABLES
    q,        \* the Queue struct: [data, head, tail, count]
    panicked, \* TRUE once an index expression of the queue went out of range
    op,       \* sequential runs: the last call made on the queue
    arg,      \* sequential runs: the argument of the last call
    ret,      \* sequential runs: what the last call returned, [v, ok]
    abs,      \* the abstract FIFO sequence the queue is compared with
    aret,     \* what the abstract sequence answers to the last call
    run,      \* "New"/"Clear": only Enqueues, then only Dequeues, since then; else "Off"
    enq,      \* while run # "Off": the values enqueued in this run
    deq,      \* while run # "Off": the [v, ok] answers of the Dequeues that followed
    grew,     \* how the latest Enqueue resized: "no", "flat" (head = 0) or "wrapped"
    \* goroutines on one queue
    mu,       \* the queue's sync.Mutex: 0 when free, else the goroutine holding it
    pc,       \* per goroutine: "idle", "lock", a statement of the method, "unlock"
    call,     \* per goroutine: the call in progress (or the last one), [op, v]
    tret,     \* per goroutine: what its call returns, [v, ok]
    loc,      \* per goroutine: the local v of Dequeue
    done,     \* per goroutine: calls completed (in the current phase of a workload)
    got,      \* per value: how many successful Dequeues returned it
    sq,       \* the queue as it would be had the calls run one at a time, in lock order
    lin,      \* per goroutine: what its call returns when run alone on sq
    wl,       \* the workload of TestQueueConcurrency: [G, M, G2, M2]
    phase,    \* of the workload: "enq", "deq", "end"; "free" outside a workload
    lenEnq,   \* Len() read after the enqueue phase
    lenDeq,   \* Len() read after the dequeue phase
    \* goroutines on two sets
    rw,       \* per set, its sync.RWMutex: [readers, writer, held, blocked]
    spc,      \* per goroutine: where it is in its call
    scall,    \* per goroutine: its call, [op, first, second] (locks in that order)
    \* Optional[T] and its JSON form
    ot,       \* the type parameter T: "int", "string" or "ptr" (*int)
    opt,      \* the Optional that is serialized, [value, nonEmpty]
    wire,     \* the bytes MarshalJSON produced
    dec,      \* the Optional that is deserialized into
    oerr,     \* whether the last UnmarshalJSON returned an error
    oop,      \* the last step: "new", "marshalled", "unmarshalled", "decoded", ...
    \* an Optional as a struct field
    tag,      \* the option of the field's json tag: "", "omitempty" or "omitzero"
    obj,      \* the members of the JSON object: a sequence of [key, val]
    ocause,   \* what the returned error wraps: "nil", "SyntaxError", "UnmarshalTypeError"
    \* Optional[int] and its accessors
    heap,     \* the int slots allocated so far; an address is an index into it
    opt1,     \* the Optional that is operated on, [value, nonEmpty], value an address
    opt2,     \* a copy of opt1 made by assignment
    cl,       \* the last clone of opt1
    aop,      \* the last call
    pre,      \* opt1 before the last call
    res,      \* what the last call returned
    calls,    \* how often the last call invoked the function it was given
    oarg,     \* the argument of the last call
    \* the Stack
    st,       \* the elements slice: [elements, spare], spare the array past its length
    stPrev,   \* the elements before the last call
    sloc,     \* per goroutine: the slice that append returned, not yet stored
    \* Set and AnySet
    skind,    \* which of the two the sets a and b are
    hm,       \* the maps of the Sets a and b
    an,       \* the items of the AnySets a and b
    sres,     \* the set the last call returned
    sprev,    \* the set a before the last call
    \* Range and ExistenceClaim
    rng,      \* the Range under test
    rmade,    \* the constructor call that built it
    claim,    \* the ExistenceClaim under test
    \* the sequential queue
    qPrev,    \* the queue struct before the last call
    \* containers with their storage
    ctype,    \* which container the run uses
    store     \* the heap: [mem, objs, sl, rh]

qvars == <<q, panicked>>
seqvars == <<op, arg, ret, abs, aret, run, enq, deq, grew>>
convars == <<mu, pc, call, tret, loc, done, got, sq, lin>>
wlvars == <<wl, phase, lenEnq, lenDeq>>
setvars == <<rw, spc, scall>>
structvars == <<tag, obj, ocause>>
accvars == <<heap, opt1, opt2, cl, aop, pre, res, calls, oarg>>
optvars == <<ot, opt, wire, dec, oerr, oop, structvars, accvars>>
stackvars == <<st, stPrev, sloc>>
collvars == <<skind, hm, an, sres, sprev>>
purevars == <<rng, rmade, claim>>
memvars == <<ctype, store>>
extvars == <<purevars, qPrev, memvars>>
restvars == <<stackvars, collvars, extvars>>

(***************************************************************************)
(* Bounds of the model.                                                    *)
(***************************************************************************)
MaxVal == 2
MaxLen == 4
MaxCapArg == 3
MaxThreads == 2
MaxCalls == 3
MaxM == 2
MaxEnq == 4
NReaders == 2
NWriters == 2
MaxOptInt == 10
MaxAlloc == 2
MaxNaN == 1

Values == 0..MaxVal
Zero == 0

(***************************************************************************)
(* Queue: constructors.                                                    *)
(***************************************************************************)
MakeSlice(n) == [i \in 1..n |-> Zero]

DefaultCapacity == 2

New == [data |-> MakeSlice(DefaultCapacity), head |-> 0, tail |-> 0, count |-> 0]

NewWithCapacity(capacity) ==
    LET c == IF capacity < 1 THEN 1 ELSE capacity
    IN  [data |-> MakeSlice(c), head |-> 0, tail |-> 0, count |-> 0]

(***************************************************************************)
(* Queue: the statements of the methods, each a function of the struct.    *)
(* Indices are 0-based as in the source; data[i] is q.data[i + 1] here.    *)
(***************************************************************************)
InRange(s, i) == i >= 0 /\ i < Len(s)

\* Faulty variant: the copy keeps each element at its old index (the span is not unwrapped).
resize_noUnwrap(s) ==
    LET newCap == IF Len(s.data) * 2 = 0 THEN 1 ELSE Len(s.data) * 2
        newData == [i \in 1..newCap |-> IF i <= Len(s.data) THEN s.data[i] ELSE Zero]
    IN  [s EXCEPT !.data = newData, !.head = 0, !.tail = s.count]

\* Faulty variant: the buffer grows by one slot.
resize_plusOne(s) ==
    LET newCap == Len(s.data) + 1
        newData == [i \in 1..newCap |->
                       IF i - 1 < s.count
                       THEN s.data[((s.head + (i - 1)) % Len(s.data)) + 1]
                       ELSE Zero]
    IN  [s EXCEPT !.data = newData, !.head = 0, !.tail = s.count]

\* Faulty variant: head keeps its old value.
resize_keepHead(s) ==
    LET newCap == IF Len(s.data) * 2 = 0 THEN 1 ELSE Len(s.data) * 2
        newData == [i \in 1..newCap |->
                       IF i - 1 < s.count
                       THEN s.data[((s.head + (i - 1)) % Len(s.data)) + 1]
                       ELSE Zero]
    IN  [s EXCEPT !.data = newData, !.tail = s.count]

resize(s) ==
    LET newCap == IF Len(s.data) * 2 = 0 THEN 1 ELSE Len(s.data) * 2
        newData == [i \in 1..newCap |->
                       IF i - 1 < s.count
                       THEN s.data[((s.head + (i - 1)) % Len(s.data)) + 1]
                       ELSE Zero]
    IN  [s EXCEPT !.data = newData, !.head = 0, !.tail = s.count]

\* Faulty variant: a full buffer is not grown.
enqGrow_never(s) == s

enqGrow(s) == IF s.count = Len(s.data) THEN resize(s) ELSE s

enqWrite(s, v) == [s EXCEPT !.data[s.tail + 1] = v]

\* Faulty variant: tail is advanced without wrapping.
enqTail_noWrap(s) == [s EXCEPT !.tail = s.tail + 1]

enqTail(s) == [s EXCEPT !.tail = (s.tail + 1) % Len(s.data)]

enqCount(s) == [s EXCEPT !.count = s.count + 1]

\* Faulty variant: the slot that was read keeps its value.
deqZero_skip(s) == s

deqZero(s) == [s EXCEPT !.data[s.head + 1] = Zero]

\* Faulty variant: head is not advanced.
deqHead_stuck(s) == s

deqHead(s) == [s EXCEPT !.head = (s.head + 1) % Len(s.data)]

deqCount(s) == [s EXCEPT !.count = s.count - 1]

clearZero(s) == [s EXCEPT !.data = [i \in 1..Len(s.data) |-> Zero]]

\* Faulty variant: head is not reset.
clearReset_keepHead(s) == [s EXCEPT !.tail = 0, !.count = 0]

\* Faulty variant: tail is not reset.
clearReset_keepTail(s) == [s EXCEPT !.head = 0, !.count = 0]

clearReset(s) == [s EXCEPT !.head = 0, !.tail = 0, !.count = 0]

(***************************************************************************)
(* Queue: the methods, each the composition of its statements.  A result   *)
(* is [s, v, ok, panic]: the struct afterwards, the returned pair, and     *)
(* whether an index was out of range (the call panics, the struct is left  *)
(* as it was at that statement).                                           *)
(***************************************************************************)
Result(s, v, ok, p) == [s |-> s, v |-> v, ok |-> ok, panic |-> p]

Enqueue(s, v) ==
    LET g == enqGrow(s)
    IN  IF InRange(g.data, g.tail)
        THEN Result(enqCount(enqTail(enqWrite(g, v))), Zero, TRUE, FALSE)
        ELSE Result(g, Zero, FALSE, TRUE)

\* Faulty variant: the empty check is missing.
Dequeue_unchecked(s) ==
    IF InRange(s.data, s.head)
    THEN Result(deqCount(deqHead(deqZero(s))), s.data[s.head + 1], TRUE, FALSE)
    ELSE Result(s, Zero, FALSE, TRUE)

Dequeue(s) ==
    IF s.count = 0
    THEN Result(s, Zero, FALSE, FALSE)
    ELSE IF InRange(s.data, s.head)
         THEN Result(deqCount(deqHead(deqZero(s))), s.data[s.head + 1], TRUE, FALSE)
         ELSE Result(s, Zero, FALSE, TRUE)

\* Faulty variant: Peek consumes the element it returns.
Peek_consuming(s) ==
    IF s.count = 0
    THEN Result(s, Zero, FALSE, FALSE)
    ELSE IF InRange(s.data, s.head)
         THEN Result(deqCount(deqHead(s)), s.data[s.head + 1], TRUE, FALSE)
         ELSE Result(s, Zero, FALSE, TRUE)

Peek(s) ==
    IF s.count = 0
    THEN Result(s, Zero, FALSE, FALSE)
    ELSE IF InRange(s.data, s.head)
         THEN Result(s, s.data[s.head + 1], TRUE, FALSE)
         ELSE Result(s, Zero, FALSE, TRUE)

IsEmpty(s) == Result(s, Zero, s.count = 0, FALSE)

QLen(s) == Result(s, s.count, TRUE, FALSE)

Clear(s) == Result(clearReset(clearZero(s)), Zero, TRUE, FALSE)

(***************************************************************************)
(* What the queue holds, oldest first: the circular span of length count   *)
(* starting at head.                                                       *)
(***************************************************************************)
Capacity(s) == Len(s.data)

Contents(s) ==
    [i \in 1..s.count |-> s.data[((s.head + (i - 1)) % Len(s.data)) + 1]]

(***************************************************************************)
(* Sequential use of one queue.                                            *)
(***************************************************************************)
NoRet == [v |-> Zero, ok |-> FALSE]

Threads == 1..MaxThreads

NoCall == [op |-> "none", v |-> Zero]

\* No call has been observed yet.
SeqIdle ==
    /\ op = "New"
    /\ arg = Zero
    /\ ret = NoRet
    /\ abs = <<>>
    /\ aret = NoRet
    /\ run = "Off"
    /\ enq = <<>>
    /\ deq = <<>>
    /\ grew = "no"

\* No goroutine has started.
ConIdle ==
    /\ mu = 0
    /\ pc = [t \in Threads |-> "idle"]
    /\ call = [t \in Threads |-> NoCall]
    /\ tret = [t \in Threads |-> NoRet]
    /\ loc = [t \in Threads |-> Zero]
    /\ done = [t \in Threads |-> 0]
    /\ got = <<>>
    /\ lin = [t \in Threads |-> NoRet]

WlIdle ==
    /\ wl = [G |-> 0, M |-> 0, G2 |-> 0, M2 |-> 0]
    /\ phase = "free"
    /\ lenEnq = 0
    /\ lenDeq = 0

SetReaders == 1..NReaders

SetWriters == (NReaders + 1)..(NReaders + NWriters)

SetThreads == SetReaders \cup SetWriters

Sets == {"a", "b"}

FreeLock == [readers |-> 0, writer |-> 0, held |-> FALSE, blocked |-> {}]

NoSetCall == [op |-> "none", first |-> "a", second |-> "a"]

SetIdle ==
    /\ rw = [x \in Sets |-> FreeLock]
    /\ spc = [t \in SetThreads |-> "idle"]
    /\ scall = [t \in SetThreads |-> NoSetCall]

\* Faulty variant: None() sets the flag.
None_flagged == [value |-> <<>>, nonEmpty |-> TRUE]

\* What None() returns.
None == [value |-> <<>>, nonEmpty |-> FALSE]

StackIdle ==
    /\ st = [elements |-> <<>>, spare |-> <<>>]
    /\ stPrev = <<>>
    /\ sloc = [t \in Threads |-> [elements |-> <<>>, spare |-> <<>>]]

CollIdle ==
    /\ skind = "none"
    /\ hm = [x \in Sets |-> <<>>]
    /\ an = [x \in Sets |-> <<>>]
    /\ sres = <<>>
    /\ sprev = <<>>

PureIdle ==
    /\ rng = <<>>
    /\ rmade = <<>>
    /\ claim = <<>>

MemIdle ==
    /\ ctype = "none"
    /\ store = <<>>

ExtIdle == PureIdle /\ qPrev = <<>> /\ MemIdle

RestIdle == StackIdle /\ CollIdle /\ ExtIdle

StructIdle ==
    /\ tag = ""
    /\ obj = <<>>
    /\ ocause = "nil"

\* What a call that returns nothing leaves in res.
NoRes == [v |-> 0, ok |-> FALSE, panic |-> FALSE, msg |-> ""]

AccIdle ==
    /\ heap = <<>>
    /\ opt1 = None
    /\ opt2 = None
    /\ cl = None
    /\ aop = "new"
    /\ pre = None
    /\ res = NoRes
    /\ calls = 0
    /\ oarg = 0

OptIdle ==
    /\ ot = "int"
    /\ opt = None
    /\ wire = <<>>
    /\ dec = None
    /\ oerr = FALSE
    /\ oop = "new"
    /\ StructIdle
    /\ AccIdle

Init ==
    /\ q \in {New} \cup {NewWithCapacity(n) : n \in -1..MaxCapArg}
    /\ panicked = FALSE
    /\ ConIdle
    /\ sq = q
    /\ WlIdle
    /\ SetIdle
    /\ RestIdle
    /\ OptIdle
    /\ op = "New"
    /\ arg = Zero
    /\ ret = NoRet
    /\ abs = <<>>
    /\ aret = NoRet
    /\ run = "New"
    /\ enq = <<>>
    /\ deq = <<>>
    /\ grew = "no"

Apply(r) ==
    /\ q' = r.s
    /\ panicked' = (panicked \/ r.panic)
    /\ ret' = [v |-> r.v, ok |-> r.ok]

\* The run stays a batch (Enqueues, then as many Dequeues at most) or is dropped.
Track(r, e, d) ==
    /\ run' = r
    /\ enq' = IF r = "Off" THEN <<>> ELSE e
    /\ deq' = IF r = "Off" THEN <<>> ELSE d

DoEnqueue ==
    \E v \in Values :
        /\ ~panicked
        /\ q.count < MaxLen
        /\ Apply(Enqueue(q, v))
        /\ qPrev' = q
        /\ op' = "Enqueue"
        /\ arg' = v
        /\ abs' = Append(abs, v)
        /\ aret' = [v |-> Zero, ok |-> TRUE]
        /\ Track(IF deq = <<>> THEN run ELSE "Off", Append(enq, v), deq)
        /\ grew' = IF q.count # Len(q.data) THEN "no"
                   ELSE IF q.head = 0 THEN "flat" ELSE "wrapped"
        /\ UNCHANGED <<convars, wlvars, setvars, optvars, stackvars, collvars, purevars, memvars>>

DoDequeue ==
    /\ ~panicked
    /\ Apply(Dequeue(q))
    /\ qPrev' = q
    /\ op' = "Dequeue"
    /\ arg' = Zero
    /\ abs' = IF abs = <<>> THEN abs ELSE Tail(abs)
    /\ aret' = IF abs = <<>> THEN NoRet ELSE [v |-> Head(abs), ok |-> TRUE]
    /\ Track(IF Len(deq) < Len(enq) THEN run ELSE "Off", enq, Append(deq, ret'))
    /\ UNCHANGED <<grew, convars, wlvars, setvars, optvars, stackvars, collvars, purevars, memvars>>

DoPeek ==
    /\ ~panicked
    /\ Apply(Peek(q))
    /\ qPrev' = q
    /\ op' = "Peek"
    /\ arg' = Zero
    /\ aret' = IF abs = <<>> THEN NoRet ELSE [v |-> Head(abs), ok |-> TRUE]
    /\ UNCHANGED <<abs, run, enq, deq, grew, convars, wlvars, setvars, optvars, stackvars, collvars, purevars, memvars>>

DoLen ==
    /\ ~panicked
    /\ Apply(QLen(q))
    /\ qPrev' = q
    /\ op' = "Len"
    /\ arg' = Zero
    /\ aret' = [v |-> Len(abs), ok |-> TRUE]
    /\ UNCHANGED <<abs, run, enq, deq, grew, convars, wlvars, setvars, optvars, stackvars, collvars, purevars, memvars>>

DoIsEmpty ==
    /\ ~panicked
    /\ Apply(IsEmpty(q))
    /\ qPrev' = q
    /\ op' = "IsEmpty"
    /\ arg' = Zero
    /\ aret' = [v |-> Zero, ok |-> (abs = <<>>)]
    /\ UNCHANGED <<abs, run, enq, deq, grew, convars, wlvars, setvars, optvars, stackvars, collvars, purevars, memvars>>

DoClear ==
    /\ ~panicked
    /\ Apply(Clear(q))
    /\ qPrev' = q
    /\ op' = "Clear"
    /\ arg' = Zero
    /\ abs' = <<>>
    /\ aret' = [v |-> Zero, ok |-> TRUE]
    /\ Track("Clear", <<>>, <<>>)
    /\ grew' = "no"
    /\ UNCHANGED <<convars, wlvars, setvars, optvars, stackvars, collvars, purevars, memvars>>

Next ==
    \/ DoEnqueue
    \/ DoDequeue
    \/ DoPeek
    \/ DoLen
    \/ DoIsEmpty
    \/ DoClear

vars == <<qvars, seqvars, convars, wlvars, setvars, optvars, restvars>>

Spec == Init /\ [][Next]_vars

(***************************************************************************)
(* Claims about the sequential queue.                                      *)
(***************************************************************************)

\* Every Dequeue answer of the run so far is the value enqueued at the same position.
FifoPrefix ==
    \A i \in 1..Len(deq) : i <= Len(enq) /\ deq[i] = [v |-> enq[i], ok |-> TRUE]

\* C1: after N Enqueues followed by Dequeues with no interleaving, on a queue of
\* any initial capacity, the k-th Dequeue returns the k-th enqueued value with
\* found = true (so N Dequeues return exactly the enqueued values in order).
C1_FifoOrder == run = "New" => FifoPrefix

C1_Witness ==
    /\ run = "New"
    /\ Len(enq) = 3
    /\ Len(deq) = 3
    /\ Cardinality({enq[i] : i \in 1..3}) = 3
    /\ Capacity(q) = 4

\* C2: under every interleaving of calls the queue holds exactly the abstract
\* sequence (append at the back, remove at the front) and every call answers
\* as the abstract sequence does: a successful Dequeue returns the oldest value.
C2_RefinesSequence ==
    /\ ~panicked
    /\ Contents(q) = abs
    /\ op # "New" => ret = aret

\* The last of four values has been dequeued after the Enqueue of the fourth
\* resized a full buffer whose span wrapped.
C2_Witness ==
    /\ op = "Dequeue"
    /\ ret.ok
    /\ ret.v # Zero
    /\ grew = "wrapped"
    /\ q.head = 4
    /\ q.count = 0

\* C6: Dequeue and Peek on a queue with count = 0 return (zero, false) and leave
\* head, tail, count, capacity and the buffer as they were.
C6_EmptySignal ==
    [][(op' \in {"Dequeue", "Peek"} /\ q.count = 0)
         => (ret' = NoRet /\ q' = q /\ ~panicked')]_vars

\* An empty answer on a drained queue whose head is not 0.
C6_Witness ==
    /\ op \in {"Dequeue", "Peek"}
    /\ ~ret.ok
    /\ q.count = 0
    /\ q.head # 0

\* C7: an Enqueue never fails, whatever the count: it adds exactly one element,
\* keeps the elements already queued in their order and puts the new value last.
C7_EnqueueAppends ==
    [][(op' = "Enqueue") =>
         (/\ ~panicked'
          /\ q'.count = q.count + 1
          /\ Contents(q') = Append(Contents(q), arg'))]_vars

\* An Enqueue has just grown a full buffer whose span wrapped.
C7_Witness ==
    /\ op = "Enqueue"
    /\ grew = "wrapped"
    /\ q.count = 4

\* C8: Peek on a non-empty queue returns (buffer[head], true), the value the next
\* Dequeue returns, and changes nothing of the queue.
C8_PeekFrame ==
    [][/\ (op' = "Peek" /\ q.count > 0) =>
            (/\ ret' = [v |-> q.data[q.head + 1], ok |-> TRUE]
             /\ q' = q
             /\ ~panicked')
       /\ (op = "Peek" /\ ret.ok /\ op' \in {"Dequeue", "Peek"}) => (ret' = ret)
       /\ (op = "Peek" /\ op' = "Len") => (ret'.v = Len(abs))]_vars

\* A Peek has answered on a span that wraps past the end of the buffer.
C8_Witness ==
    /\ op = "Peek"
    /\ ret.ok
    /\ ret.v # Zero
    /\ q.head + q.count > Capacity(q)

\* C9: Clear leaves head = tail = count = 0 and the capacity as it was; Len is 0,
\* IsEmpty is true and Dequeue finds nothing right after it; what is enqueued
\* after it is dequeued in FIFO order.
C9_ClearResets ==
    /\ [][/\ (op' = "Clear") =>
                (/\ q'.head = 0
                 /\ q'.tail = 0
                 /\ q'.count = 0
                 /\ Capacity(q') = Capacity(q))
          /\ (op = "Clear" /\ op' = "Len") => (ret'.v = 0)
          /\ (op = "Clear" /\ op' = "IsEmpty") => ret'.ok
          /\ (op = "Clear" /\ op' \in {"Dequeue", "Peek"}) => ~ret'.ok]_vars
    /\ [](run = "Clear" => FifoPrefix)

\* After a Clear of a grown queue, three values went in and came out in order.
C9_Witness ==
    /\ run = "Clear"
    /\ Capacity(q) = 6
    /\ Len(enq) = 3
    /\ Len(deq) = 3
    /\ enq[1] # enq[2]

(***************************************************************************)
(* Goroutines on one queue.  Every method is "q.mu.Lock(); defer           *)
(* q.mu.Unlock()" followed by its statements; a goroutine takes them one   *)
(* at a time.  At the moment a call takes the lock it is also run alone on *)
(* sq, the queue of the one-at-a-time execution in lock order.             *)
(***************************************************************************)
Critical ==
    {"e38", "e42", "e43", "e44", "d53", "d58", "d64", "d65",
     "p76", "i88", "l95", "c105", "c109", "unlock"}

FirstStatement(o) ==
    CASE o = "Enqueue" -> "e38"
      [] o = "Dequeue" -> "d53"
      [] o = "Peek" -> "p76"
      [] o = "IsEmpty" -> "i88"
      [] o = "Len" -> "l95"
      [] o = "Clear" -> "c105"

Alone(s, c) ==
    CASE c.op = "Enqueue" -> Enqueue(s, c.v)
      [] c.op = "Dequeue" -> Dequeue(s)
      [] c.op = "Peek" -> Peek(s)
      [] c.op = "IsEmpty" -> IsEmpty(s)
      [] c.op = "Len" -> QLen(s)
      [] c.op = "Clear" -> Clear(s)

\* Faulty variant: Lock does not wait for the holder.
CanLock_always(m) == TRUE

\* sync.Mutex.Lock returns only when no goroutine holds the mutex.
CanLock(m) == m = 0

\* Faulty variant: the deferred Unlock is missing.
Release_leak(m) == m

\* sync.Mutex.Unlock.
Release(m) == 0

Goto(t, l) == pc' = [pc EXCEPT ![t] = l]

Returns(t, v, ok) == tret' = [tret EXCEPT ![t] = [v |-> v, ok |-> ok]]

Count(b, v) == IF v \in DOMAIN b THEN b[v] ELSE 0

PutIn(b, v) == [x \in DOMAIN b \cup {v} |-> IF x = v THEN Count(b, v) + 1 ELSE b[x]]

LockStep(t) ==
    /\ pc[t] = "lock"
    /\ CanLock(mu)
    /\ mu' = t
    /\ Goto(t, FirstStatement(call[t].op))
    /\ sq' = Alone(sq, call[t]).s
    /\ lin' = [lin EXCEPT ![t] = [v |-> Alone(sq, call[t]).v, ok |-> Alone(sq, call[t]).ok]]
    /\ UNCHANGED <<qvars, call, tret, loc, done, got, seqvars, wlvars, setvars, optvars, restvars>>

EnqGrowStep(t) ==
    /\ pc[t] = "e38"
    /\ q' = enqGrow(q)
    /\ Goto(t, "e42")
    /\ UNCHANGED <<panicked, mu, call, tret, loc, done, got, sq, lin, seqvars, wlvars, setvars, optvars, restvars>>

EnqWriteStep(t) ==
    /\ pc[t] = "e42"
    /\ IF InRange(q.data, q.tail)
       THEN q' = enqWrite(q, call[t].v) /\ Goto(t, "e43") /\ UNCHANGED panicked
       ELSE panicked' = TRUE /\ Goto(t, "unlock") /\ UNCHANGED q
    /\ UNCHANGED <<mu, call, tret, loc, done, got, sq, lin, seqvars, wlvars, setvars, optvars, restvars>>

EnqTailStep(t) ==
    /\ pc[t] = "e43"
    /\ q' = enqTail(q)
    /\ Goto(t, "e44")
    /\ UNCHANGED <<panicked, mu, call, tret, loc, done, got, sq, lin, seqvars, wlvars, setvars, optvars, restvars>>

EnqCountStep(t) ==
    /\ pc[t] = "e44"
    /\ q' = enqCount(q)
    /\ Returns(t, Zero, TRUE)
    /\ Goto(t, "unlock")
    /\ UNCHANGED <<panicked, mu, call, loc, done, got, sq, lin, seqvars, wlvars, setvars, optvars, restvars>>

DeqCheckStep(t) ==
    /\ pc[t] = "d53"
    /\ IF q.count = 0
       THEN Returns(t, Zero, FALSE) /\ Goto(t, "unlock")
       ELSE Goto(t, "d58") /\ UNCHANGED tret
    /\ UNCHANGED <<qvars, mu, call, loc, done, got, sq, lin, seqvars, wlvars, setvars, optvars, restvars>>

DeqReadStep(t) ==
    /\ pc[t] = "d58"
    /\ IF InRange(q.data, q.head)
       THEN /\ loc' = [loc EXCEPT ![t] = q.data[q.head + 1]]
            /\ q' = deqZero(q)
            /\ Goto(t, "d64")
            /\ UNCHANGED panicked
       ELSE /\ panicked' = TRUE
            /\ Goto(t, "unlock")
            /\ UNCHANGED <<q, loc>>
    /\ UNCHANGED <<mu, call, tret, done, got, sq, lin, seqvars, wlvars, setvars, optvars, restvars>>

DeqHeadStep(t) ==
    /\ pc[t] = "d64"
    /\ q' = deqHead(q)
    /\ Goto(t, "d65")
    /\ UNCHANGED <<panicked, mu, call, tret, loc, done, got, sq, lin, seqvars, wlvars, setvars, optvars, restvars>>

DeqCountStep(t) ==
    /\ pc[t] = "d65"
    /\ q' = deqCount(q)
    /\ Returns(t, loc[t], TRUE)
    /\ Goto(t, "unlock")
    /\ UNCHANGED <<panicked, mu, call, loc, done, got, sq, lin, seqvars, wlvars, setvars, optvars, restvars>>

PeekStep(t) ==
    /\ pc[t] = "p76"
    /\ Returns(t, Peek(q).v, Peek(q).ok)
    /\ panicked' = (panicked \/ Peek(q).panic)
    /\ Goto(t, "unlock")
    /\ UNCHANGED <<q, mu, call, loc, done, got, sq, lin, seqvars, wlvars, setvars, optvars, restvars>>

IsEmptyStep(t) ==
    /\ pc[t] = "i88"
    /\ Returns(t, Zero, q.count = 0)
    /\ Goto(t, "unlock")
    /\ UNCHANGED <<qvars, mu, call, loc, done, got, sq, lin, seqvars, wlvars, setvars, optvars, restvars>>

LenStep(t) ==
    /\ pc[t] = "l95"
    /\ Returns(t, q.count, TRUE)
    /\ Goto(t, "unlock")
    /\ UNCHANGED <<qvars, mu, call, loc, done, got, sq, lin, seqvars, wlvars, setvars, optvars, restvars>>

ClearZeroStep(t) ==
    /\ pc[t] = "c105"
    /\ q' = clearZero(q)
    /\ Goto(t, "c109")
    /\ UNCHANGED <<panicked, mu, call, tret, loc, done, got, sq, lin, seqvars, wlvars, setvars, optvars, restvars>>

ClearResetStep(t) ==
    /\ pc[t] = "c109"
    /\ q' = clearReset(q)
    /\ Returns(t, Zero, TRUE)
    /\ Goto(t, "unlock")
    /\ UNCHANGED <<panicked, mu, call, loc, done, got, sq, lin, seqvars, wlvars, setvars, optvars, restvars>>

\* The deferred Unlock runs and the call returns.
UnlockStep(t) ==
    /\ pc[t] = "unlock"
    /\ mu' = Release(mu)
    /\ Goto(t, "idle")
    /\ done' = [done EXCEPT ![t] = done[t] + 1]
    /\ got' = IF call[t].op = "Dequeue" /\ tret[t].ok THEN PutIn(got, tret[t].v) ELSE got
    /\ UNCHANGED <<qvars, call, tret, loc, sq, lin, seqvars, wlvars, setvars, optvars, restvars>>

RECURSIVE SumTo(_, _)
SumTo(f, n) == IF n = 0 THEN 0 ELSE f[n] + SumTo(f, n - 1)

Sum(f) == SumTo(f, MaxThreads)

\* Any goroutine makes any call; goroutine t enqueues the value t.
Begin(t) ==
    \E o \in {"Enqueue", "Dequeue", "Peek", "IsEmpty", "Len", "Clear"} :
        /\ pc[t] = "idle"
        /\ Sum(done) + Cardinality({u \in Threads : pc[u] # "idle"}) < MaxCalls
        /\ call' = [call EXCEPT ![t] = [op |-> o, v |-> IF o = "Enqueue" THEN t ELSE Zero]]
        /\ Goto(t, "lock")
        /\ UNCHANGED <<qvars, mu, tret, loc, done, got, sq, lin, seqvars, wlvars, setvars, optvars, restvars>>

InitConc ==
    /\ q \in {NewWithCapacity(1), New}
    /\ panicked = FALSE
    /\ SeqIdle
    /\ ConIdle
    /\ sq = q
    /\ WlIdle
    /\ SetIdle
    /\ RestIdle
    /\ OptIdle

NextConc ==
    \E t \in Threads :
        \/ Begin(t)
        \/ LockStep(t)
        \/ EnqGrowStep(t)
        \/ EnqWriteStep(t)
        \/ EnqTailStep(t)
        \/ EnqCountStep(t)
        \/ DeqCheckStep(t)
        \/ DeqReadStep(t)
        \/ DeqHeadStep(t)
        \/ DeqCountStep(t)
        \/ PeekStep(t)
        \/ IsEmptyStep(t)
        \/ LenStep(t)
        \/ ClearZeroStep(t)
        \/ ClearResetStep(t)
        \/ UnlockStep(t)

SpecConc == InitConc /\ [][NextConc]_vars

(***************************************************************************)
(* The workload of TestQueueConcurrency: G goroutines enqueue M distinct   *)
(* values each; after wg.Wait() Len() is read; G2 goroutines dequeue M2    *)
(* times each; after wg.Wait() Len() is read again.                        *)
(***************************************************************************)
InitWork ==
    /\ q = New
    /\ panicked = FALSE
    /\ SeqIdle
    /\ ConIdle
    /\ sq = q
    /\ wl \in {w \in [G : 1..MaxThreads, M : 1..MaxM, G2 : 1..MaxThreads, M2 : 1..MaxM] :
                  w.G * w.M <= MaxEnq /\ w.G2 * w.M2 <= MaxEnq}
    /\ phase = "enq"
    /\ lenEnq = 0
    /\ lenDeq = 0
    /\ SetIdle
    /\ RestIdle
    /\ OptIdle

\* go func(base int) { for j ... q.Enqueue(base + j) }: the values are distinct.
BeginEnqueue(t) ==
    /\ phase = "enq"
    /\ t <= wl.G
    /\ pc[t] = "idle"
    /\ done[t] < wl.M
    /\ call' = [call EXCEPT ![t] = [op |-> "Enqueue", v |-> (t - 1) * wl.M + done[t] + 1]]
    /\ Goto(t, "lock")
    /\ UNCHANGED <<qvars, mu, tret, loc, done, got, sq, lin, seqvars, wlvars, setvars, optvars, restvars>>

BeginDequeue(t) ==
    /\ phase = "deq"
    /\ t <= wl.G2
    /\ pc[t] = "idle"
    /\ done[t] < wl.M2
    /\ call' = [call EXCEPT ![t] = [op |-> "Dequeue", v |-> Zero]]
    /\ Goto(t, "lock")
    /\ UNCHANGED <<qvars, mu, tret, loc, done, got, sq, lin, seqvars, wlvars, setvars, optvars, restvars>>

\* wg.Wait() returns once every goroutine of the phase is done; Len() is read.
EnqueuersDone ==
    /\ phase = "enq"
    /\ \A t \in Threads : t <= wl.G => (pc[t] = "idle" /\ done[t] = wl.M)
    /\ CanLock(mu)
    /\ lenEnq' = QLen(q).v
    /\ phase' = "deq"
    /\ done' = [t \in Threads |-> 0]
    /\ UNCHANGED <<qvars, mu, pc, call, tret, loc, got, sq, lin, seqvars, wl, lenDeq, setvars, optvars, restvars>>

DequeuersDone ==
    /\ phase = "deq"
    /\ \A t \in Threads : t <= wl.G2 => (pc[t] = "idle" /\ done[t] = wl.M2)
    /\ CanLock(mu)
    /\ lenDeq' = QLen(q).v
    /\ phase' = "end"
    /\ UNCHANGED <<qvars, convars, seqvars, wl, lenEnq, setvars, optvars, restvars>>

NextWork ==
    \/ EnqueuersDone
    \/ DequeuersDone
    \/ \E t \in Threads :
        \/ BeginEnqueue(t)
        \/ BeginDequeue(t)
        \/ LockStep(t)
        \/ EnqGrowStep(t)
        \/ EnqWriteStep(t)
        \/ EnqTailStep(t)
        \/ EnqCountStep(t)
        \/ DeqCheckStep(t)
        \/ DeqReadStep(t)
        \/ DeqHeadStep(t)
        \/ DeqCountStep(t)
        \/ UnlockStep(t)

SpecWork == InitWork /\ [][NextWork]_vars

(***************************************************************************)
(* Claims about goroutines on one queue.                                   *)
(***************************************************************************)
Enqueued == 1..(wl.G * wl.M)

Range(f) == {f[i] : i \in DOMAIN f}

\* C3: Len() is G*M after the enqueue phase and G*M - G2*M2 after the dequeue
\* phase (0 when the dequeuers drain the queue); no value is returned by two
\* Dequeues, and every enqueued value is either returned once or still queued.
C3_Conservation ==
    /\ phase \in {"deq", "end"} => lenEnq = wl.G * wl.M
    /\ phase = "end" =>
          lenDeq = IF wl.G2 * wl.M2 >= wl.G * wl.M THEN 0 ELSE wl.G * wl.M - wl.G2 * wl.M2
    /\ \A v \in DOMAIN got : v \in Enqueued /\ got[v] = 1
    /\ phase = "end" =>
          /\ DOMAIN got \cup Range(Contents(q)) = Enqueued
          /\ DOMAIN got \cap Range(Contents(q)) = {}
          /\ Cardinality(DOMAIN got) + q.count = wl.G * wl.M

\* Two goroutines enqueued two values each and two goroutines drained the queue.
C3_Witness ==
    /\ phase = "end"
    /\ wl = [G |-> 2, M |-> 2, G2 |-> 2, M2 |-> 2]
    /\ lenEnq = 4
    /\ lenDeq = 0
    /\ DOMAIN got = 1..4

InCritical == {t \in Threads : pc[t] \in Critical}

\* C4: at most one call is inside its critical section; a call holds the lock
\* from its first statement to its return, and the lock is free once it has
\* returned (on the early return of an empty Dequeue or Peek too); the queue and
\* every returned pair are those of running the calls one at a time in the
\* order in which they took the lock.
C4_Serialized ==
    /\ Cardinality(InCritical) <= 1
    /\ \A t \in InCritical : mu = t
    /\ mu # 0 => mu \in InCritical
    /\ ~panicked
    /\ mu = 0 => q = sq
    /\ \A t \in Threads : (pc[t] = "idle" /\ done[t] > 0) => tret[t] = lin[t]

\* A Dequeue has returned through its empty-queue return, and another goroutine
\* that was waiting has the lock.
C4_Witness ==
    \E t, u \in Threads :
        /\ t # u
        /\ call[t].op = "Dequeue"
        /\ pc[t] = "idle"
        /\ done[t] > 0
        /\ ~tret[t].ok
        /\ call[u].op = "Enqueue"
        /\ pc[u] = "e42"
        /\ q.count = 1

(***************************************************************************)
(* Goroutines on two sets.  Every two-set method of Set and AnySet (Union, *)
(* Intersect, Difference, SymmetricDifference, IsSubset, Equal) is         *)
(* "s.mu.RLock(); other.mu.RLock(); defer s.mu.RUnlock(); defer            *)
(* other.mu.RUnlock()"; IsSuperset is other.IsSubset(s).  Add and Remove   *)
(* are "s.mu.Lock(); defer s.mu.Unlock()".  The lock is sync.RWMutex: a    *)
(* Lock that waits for readers makes every later RLock wait for it.        *)
(***************************************************************************)
TwoSetOps == {"Union", "IsSuperset"}

WriteOps == {"Add", "Remove"}

\* The sets in the order in which the call read-locks them.
LockOrder(o, s, other) ==
    IF o = "IsSuperset"
    THEN [op |-> o, first |-> other, second |-> s]
    ELSE [op |-> o, first |-> s, second |-> other]

\* sync.RWMutex.RLock passes unless a writer holds the lock or waits for it.
RLockPasses(l) == l.writer = 0

SetGoto(t, l) == spc' = [spc EXCEPT ![t] = l]

\* RLock on set x by goroutine t, which goes on at label go or sleeps at label wait.
RLock(t, x, go, wait) ==
    IF RLockPasses(rw[x])
    THEN /\ rw' = [rw EXCEPT ![x].readers = rw[x].readers + 1]
         /\ SetGoto(t, go)
    ELSE /\ rw' = [rw EXCEPT ![x].blocked = rw[x].blocked \cup {t}]
         /\ SetGoto(t, wait)

RUnlock(t, x, go) ==
    /\ rw' = [rw EXCEPT ![x].readers = rw[x].readers - 1]
    /\ SetGoto(t, go)

QueueOnly == UNCHANGED <<qvars, seqvars, convars, wlvars, optvars, restvars>>

SetBegin(t) ==
    /\ spc[t] = "idle"
    /\ \/ /\ t \in SetReaders
          /\ \E o \in TwoSetOps, s \in Sets, other \in Sets :
                 scall' = [scall EXCEPT ![t] = LockOrder(o, s, other)]
          /\ SetGoto(t, "r1")
       \/ /\ t \in SetWriters
          /\ \E o \in WriteOps, s \in Sets :
                 scall' = [scall EXCEPT ![t] = [op |-> o, first |-> s, second |-> s]]
          /\ SetGoto(t, "w")
    /\ UNCHANGED rw
    /\ QueueOnly

RLockFirst(t) ==
    /\ spc[t] = "r1"
    /\ RLock(t, scall[t].first, "r2", "r1wait")
    /\ UNCHANGED scall
    /\ QueueOnly

RLockSecond(t) ==
    /\ spc[t] = "r2"
    /\ RLock(t, scall[t].second, "body", "r2wait")
    /\ UNCHANGED scall
    /\ QueueOnly

\* A sleeping reader goes on once the writer's Unlock has let it in.
ReaderWakes(t) ==
    /\ \/ spc[t] = "r1wait" /\ t \notin rw[scall[t].first].blocked /\ SetGoto(t, "r2")
       \/ spc[t] = "r2wait" /\ t \notin rw[scall[t].second].blocked /\ SetGoto(t, "body")
    /\ UNCHANGED <<rw, scall>>
    /\ QueueOnly

TwoSetBody(t) ==
    /\ spc[t] = "body"
    /\ SetGoto(t, "u2")
    /\ UNCHANGED <<rw, scall>>
    /\ QueueOnly

\* The deferred calls run last-in first-out: the second set is released first.
RUnlockSecond(t) ==
    /\ spc[t] = "u2"
    /\ RUnlock(t, scall[t].second, "u1")
    /\ UNCHANGED scall
    /\ QueueOnly

RUnlockFirst(t) ==
    /\ spc[t] = "u1"
    /\ RUnlock(t, scall[t].first, "done")
    /\ UNCHANGED scall
    /\ QueueOnly

\* Lock: one writer at a time announces itself; it has the lock at once when no
\* reader holds it, and otherwise sleeps until the readers have left.
WLock(t) ==
    /\ spc[t] = "w"
    /\ rw[scall[t].first].writer = 0
    /\ rw' = [rw EXCEPT ![scall[t].first].writer = t,
                         ![scall[t].first].held = (rw[scall[t].first].readers = 0)]
    /\ SetGoto(t, IF rw[scall[t].first].readers = 0 THEN "wbody" ELSE "wwait")
    /\ UNCHANGED scall
    /\ QueueOnly

WriterWakes(t) ==
    /\ spc[t] = "wwait"
    /\ rw[scall[t].first].readers = 0
    /\ rw' = [rw EXCEPT ![scall[t].first].held = TRUE]
    /\ SetGoto(t, "wbody")
    /\ UNCHANGED scall
    /\ QueueOnly

WriteBody(t) ==
    /\ spc[t] = "wbody"
    /\ SetGoto(t, "wu")
    /\ UNCHANGED <<rw, scall>>
    /\ QueueOnly

\* Unlock lets in every reader that slept on this writer.
WUnlock(t) ==
    /\ spc[t] = "wu"
    /\ rw' = [rw EXCEPT ![scall[t].first] =
                  [readers |-> Cardinality(rw[scall[t].first].blocked),
                   writer |-> 0, held |-> FALSE, blocked |-> {}]]
    /\ SetGoto(t, "done")
    /\ UNCHANGED scall
    /\ QueueOnly

InitSet ==
    /\ q = New
    /\ panicked = FALSE
    /\ SeqIdle
    /\ ConIdle
    /\ sq = q
    /\ WlIdle
    /\ SetIdle
    /\ RestIdle
    /\ OptIdle

NextSet ==
    \E t \in SetThreads :
        \/ SetBegin(t)
        \/ RLockFirst(t)
        \/ RLockSecond(t)
        \/ ReaderWakes(t)
        \/ TwoSetBody(t)
        \/ RUnlockSecond(t)
        \/ RUnlockFirst(t)
        \/ WLock(t)
        \/ WriterWakes(t)
        \/ WriteBody(t)
        \/ WUnlock(t)

SpecSet == InitSet /\ [][NextSet]_vars

\* C5: no call is suspended for ever: as long as a call on a set has not
\* returned, some goroutine can take a step (so that, goroutines being scheduled
\* fairly, every call returns), also when two-set calls run on the same pair of
\* sets in opposite orders, or on the same set twice, while others Add and Remove.
C5_EveryCallReturns ==
    (\E t \in SetThreads : spc[t] \notin {"idle", "done"}) => ENABLED NextSet

(***************************************************************************)
(* Optional[T] and encoding/json.  Bytes are sequences of one-character    *)
(* strings.  T is int, string or *int; a value of *T is <<>> (nil) or <<x>> *)
(* (a pointer to x), so that a value of T = *int is <<>> or <<n>> itself.  *)
(***************************************************************************)
Types == {"int", "string", "ptr"}

DQ == "\""

Digits == <<"0", "1", "2", "3", "4", "5", "6", "7", "8", "9">>

NullBytes == <<"n", "u", "l", "l">>

TValues(t) ==
    CASE t = "int" -> -1..MaxOptInt
      [] t = "string" -> {<<>>, <<"a">>, <<"7">>, NullBytes}
      [] t = "ptr" -> {<<>>} \cup {<<n>> : n \in -1..MaxOptInt}

Some(v) == [value |-> <<v>>, nonEmpty |-> TRUE]

\* Optional[T]{value: nil, nonEmpty: true}
SomeNull == [value |-> <<>>, nonEmpty |-> TRUE]

IsNone(o) == o.nonEmpty = FALSE

IsSome(o) == ~IsNone(o)

\* Faulty variant: only the pointer is looked at.
IsNull_pointerOnly(o) == o.value = <<>>

IsNull(o) == IsSome(o) /\ o.value = <<>>

IsNotNull(o) == IsSome(o) /\ o.value # <<>>

RECURSIVE EncodeNat(_)
EncodeNat(n) ==
    IF n < 10 THEN <<Digits[n + 1]>> ELSE EncodeNat(n \div 10) \o <<Digits[(n % 10) + 1]>>

EncodeInt(n) == IF n < 0 THEN <<"-">> \o EncodeNat(0 - n) ELSE EncodeNat(n)

\* json.Marshal of a value of T.
jsonMarshal(t, x) ==
    CASE t = "int" -> EncodeInt(x)
      [] t = "string" -> <<DQ>> \o x \o <<DQ>>
      [] t = "ptr" -> IF x = <<>> THEN NullBytes ELSE EncodeInt(x[1])

\* Faulty variant: the pointer is dereferenced without the nil check of json.Marshal,
\* a nil one being written as the zero value of T.
MarshalJSON_zeroForNil(t, o) ==
    jsonMarshal(t, IF o.value = <<>>
                   THEN (CASE t = "int" -> 0 [] t = "string" -> <<>> [] t = "ptr" -> <<0>>)
                   ELSE o.value[1])

\* json.Marshal(o.value): of a *T.
MarshalJSON(t, o) == IF o.value = <<>> THEN NullBytes ELSE jsonMarshal(t, o.value[1])

\* json.Marshal(p) of a *Optional[T]: null for nil, else the MarshalJSON of what
\* it points to (the method has a value receiver).
MarshalPtr(t, p) == IF p = <<>> THEN NullBytes ELSE MarshalJSON(t, p[1])

IsDigit(c) == \E i \in 1..10 : Digits[i] = c

DigitVal(c) == (CHOOSE i \in 1..10 : Digits[i] = c) - 1

RECURSIVE ParseNat(_)
ParseNat(b) ==
    IF Len(b) = 1 THEN DigitVal(b[1])
    ELSE ParseNat(SubSeq(b, 1, Len(b) - 1)) * 10 + DigitVal(b[Len(b)])

\* A JSON number without fraction or exponent.
ValidNat(b) ==
    /\ Len(b) >= 1
    /\ \A i \in 1..Len(b) : IsDigit(b[i])
    /\ Len(b) > 1 => b[1] # "0"

ValidInt(b) == ValidNat(b) \/ (Len(b) >= 2 /\ b[1] = "-" /\ ValidNat(Tail(b)))

ParseInt(b) == IF b[1] = "-" THEN 0 - ParseNat(Tail(b)) ELSE ParseNat(b)

ValidString(b) ==
    /\ Len(b) >= 2
    /\ b[1] = DQ
    /\ b[Len(b)] = DQ
    /\ \A i \in 2..(Len(b) - 1) : b[i] # DQ

\* json.Unmarshal(data, &v) with v the zero value of T: [ok, v].
jsonUnmarshal(t, b) ==
    CASE t = "int" ->
           IF ValidInt(b) THEN [ok |-> TRUE, v |-> ParseInt(b)]
           ELSE IF b = NullBytes THEN [ok |-> TRUE, v |-> 0]
           ELSE [ok |-> FALSE, v |-> 0]
      [] t = "string" ->
           IF ValidString(b) THEN [ok |-> TRUE, v |-> SubSeq(b, 2, Len(b) - 1)]
           ELSE IF b = NullBytes THEN [ok |-> TRUE, v |-> <<>>]
           ELSE [ok |-> FALSE, v |-> <<>>]
      [] t = "ptr" ->
           IF ValidInt(b) THEN [ok |-> TRUE, v |-> <<ParseInt(b)>>]
           ELSE IF b = NullBytes THEN [ok |-> TRUE, v |-> <<>>]
           ELSE [ok |-> FALSE, v |-> <<>>]

RECURSIVE TrimLeft(_)
TrimLeft(b) == IF b # <<>> /\ b[1] = " " THEN TrimLeft(Tail(b)) ELSE b

RECURSIVE TrimRight(_)
TrimRight(b) ==
    IF b # <<>> /\ b[Len(b)] = " " THEN TrimRight(SubSeq(b, 1, Len(b) - 1)) ELSE b

\* bytes.TrimSpace
TrimSpace(b) == TrimRight(TrimLeft(b))

\* Faulty variant: the null literal is not told apart; it goes to json.Unmarshal.
UnmarshalJSON_noNull(t, o, data) ==
    LET r == jsonUnmarshal(t, TrimSpace(data))
    IN  IF ~r.ok THEN [o |-> o, err |-> TRUE] ELSE [o |-> Some(r.v), err |-> FALSE]

\* Faulty variant: the receiver is reset before decoding and stays so on failure.
UnmarshalJSON_resetFirst(t, o, data) ==
    LET d == TrimSpace(data)
        r == jsonUnmarshal(t, d)
    IN  IF d = NullBytes THEN [o |-> [value |-> <<>>, nonEmpty |-> TRUE], err |-> FALSE]
        ELSE IF ~r.ok THEN [o |-> None, err |-> TRUE]
        ELSE [o |-> [value |-> <<r.v>>, nonEmpty |-> TRUE], err |-> FALSE]

\* (o *Optional[T]).UnmarshalJSON(data): [o, err], the receiver afterwards and
\* whether an error is returned.
UnmarshalJSON(t, o, data) ==
    LET d == TrimSpace(data)
    IN  IF d = NullBytes
        THEN [o |-> [value |-> <<>>, nonEmpty |-> TRUE], err |-> FALSE]
        ELSE LET r == jsonUnmarshal(t, d)
             IN  IF ~r.ok
                 THEN [o |-> o, err |-> TRUE]
                 ELSE [o |-> [value |-> <<r.v>>, nonEmpty |-> TRUE], err |-> FALSE]

\* The error json.Unmarshal(data, &v) returns: nil, a *json.SyntaxError when data
\* is not a JSON value, a *json.UnmarshalTypeError when it is one that T cannot hold.
jsonError(t, b) ==
    IF jsonUnmarshal(t, b).ok THEN "nil"
    ELSE IF ValidInt(b) \/ ValidString(b) THEN "UnmarshalTypeError"
    ELSE "SyntaxError"

\* What the error returned by UnmarshalJSON wraps (%w); "nil" when it returns nil.
UnmarshalCause(t, data) ==
    IF UnmarshalJSON(t, None, data).err THEN jsonError(t, TrimSpace(data)) ELSE "nil"

\* Payloads handed to UnmarshalJSON directly.
Payloads ==
    {NullBytes, <<" ">> \o NullBytes \o <<" ">>, <<"7">>, <<"-", "1">>, <<"0", "1">>,
     <<DQ, "a", DQ>>, <<DQ, "a">>, <<"n", "u", "l">>, <<>>}

NotSets == UNCHANGED <<qvars, seqvars, convars, wlvars, setvars, restvars>>

InitOpt ==
    /\ q = New
    /\ panicked = FALSE
    /\ SeqIdle
    /\ ConIdle
    /\ sq = q
    /\ WlIdle
    /\ SetIdle
    /\ RestIdle
    /\ ot \in Types
    /\ opt = None
    /\ wire = <<>>
    /\ dec = None
    /\ oerr = FALSE
    /\ oop = "new"
    /\ StructIdle
    /\ AccIdle

\* opt := None(), Some(v), or the literal with a nil value.
OptConstruct ==
    \E o \in {None, SomeNull} \cup {Some(v) : v \in TValues(ot)} :
        /\ opt' = o
        /\ wire' = <<>>
        /\ oop' = "new"
        /\ tag' = ""
        /\ obj' = <<>>
        /\ UNCHANGED <<ot, dec, oerr, ocause, accvars>>
        /\ NotSets

\* wire := json.Marshal(opt)
OptMarshal ==
    /\ oop = "new"
    /\ wire' = MarshalJSON(ot, opt)
    /\ oop' = "marshalled"
    /\ UNCHANGED <<ot, opt, dec, oerr, structvars, accvars>>
    /\ NotSets

\* wire := json.Marshal(&opt)
OptMarshalPtr ==
    /\ oop = "new"
    /\ wire' = MarshalPtr(ot, <<opt>>)
    /\ oop' = "marshalledPtr"
    /\ UNCHANGED <<ot, opt, dec, oerr, structvars, accvars>>
    /\ NotSets

\* json.Unmarshal(wire, &dec)
OptUnmarshal ==
    /\ oop = "marshalled"
    /\ dec' = UnmarshalJSON(ot, dec, wire).o
    /\ oerr' = UnmarshalJSON(ot, dec, wire).err
    /\ ocause' = UnmarshalCause(ot, wire)
    /\ oop' = "unmarshalled"
    /\ UNCHANGED <<ot, opt, wire, tag, obj, accvars>>
    /\ NotSets

\* dec.UnmarshalJSON(data) on bytes that come from elsewhere.
OptDecode ==
    \E data \in Payloads :
        /\ oop \notin {"marshalled", "marshalledPtr", "structMarshalled"}
        /\ dec' = UnmarshalJSON(ot, dec, data).o
        /\ oerr' = UnmarshalJSON(ot, dec, data).err
        /\ wire' = data
        /\ ocause' = UnmarshalCause(ot, data)
        /\ oop' = "decoded"
        /\ tag' = ""
        /\ obj' = <<>>
        /\ UNCHANGED <<ot, opt, accvars>>
        /\ NotSets

(***************************************************************************)
(* An Optional as a field of a struct, as in                               *)
(*   type TestStruct struct {                                              *)
(*       Required int           `json:"required"`                          *)
(*       Optional Optional[int] `json:"optional,omitempty"` }              *)
(* A JSON object is written as the sequence of its members.                *)
(***************************************************************************)
Tags == {"", "omitempty", "omitzero"}

IsZero(o) == ~o.nonEmpty

\* encoding/json's emptiness test behind omitempty: false, 0, a nil pointer or
\* interface, an empty array, slice, map or string.  Optional is a struct, which
\* is none of these, whatever its fields hold.
isEmptyValue(o) == FALSE

\* Whether json.Marshal leaves the field out.
Omitted(g, o) ==
    \/ g = "omitempty" /\ isEmptyValue(o)
    \/ g = "omitzero" /\ IsZero(o)

RequiredMember == [key |-> "required", val |-> <<"1">>]

\* json.Marshal(TestStruct{Required: 1, Optional: o}) with tag option g.
MarshalStruct(t, g, o) ==
    <<RequiredMember>> \o
        (IF Omitted(g, o) THEN <<>> ELSE <<[key |-> "optional", val |-> MarshalJSON(t, o)]>>)

HasMember(members, k) == \E i \in 1..Len(members) : members[i].key = k

Member(members, k) == members[CHOOSE i \in 1..Len(members) : members[i].key = k].val

\* json.Unmarshal(members, &got), seen from got.Optional = o: a member that is
\* there, the null literal included, goes to o.UnmarshalJSON; a missing one
\* leaves o alone.
\* Faulty variant: a missing member is decoded like the null literal.
UnmarshalStruct_missingAsNull(t, o, members) ==
    UnmarshalJSON(t, o, IF HasMember(members, "optional") THEN Member(members, "optional") ELSE NullBytes)

UnmarshalStruct(t, o, members) ==
    IF HasMember(members, "optional")
    THEN UnmarshalJSON(t, o, Member(members, "optional"))
    ELSE [o |-> o, err |-> FALSE]

UnmarshalStructCause(t, members) ==
    IF HasMember(members, "optional")
    THEN UnmarshalCause(t, Member(members, "optional"))
    ELSE "nil"

\* Objects that come from elsewhere.
Objects ==
    {<<RequiredMember>>} \cup
    {<<RequiredMember, [key |-> "optional", val |-> b]>> :
        b \in {NullBytes, <<"7">>, <<DQ, "a", DQ>>, <<DQ, "a">>}}

\* obj := json.Marshal(TestStruct{Required: 1, Optional: opt})
StructMarshal ==
    \E g \in Tags :
        /\ oop = "new"
        /\ tag' = g
        /\ obj' = MarshalStruct(ot, g, opt)
        /\ oop' = "structMarshalled"
        /\ UNCHANGED <<ot, opt, wire, dec, oerr, ocause, accvars>>
        /\ NotSets

\* var got TestStruct; json.Unmarshal(obj, &got); dec := got.Optional
StructUnmarshal ==
    /\ oop = "structMarshalled"
    /\ dec' = UnmarshalStruct(ot, None, obj).o
    /\ oerr' = UnmarshalStruct(ot, None, obj).err
    /\ ocause' = UnmarshalStructCause(ot, obj)
    /\ oop' = "structUnmarshalled"
    /\ UNCHANGED <<ot, opt, wire, tag, obj, accvars>>
    /\ NotSets

\* json.Unmarshal(members, &got) with got.Optional = dec.
StructDecode ==
    \E members \in Objects :
        /\ oop \notin {"marshalled", "marshalledPtr", "structMarshalled"}
        /\ obj' = members
        /\ dec' = UnmarshalStruct(ot, dec, members).o
        /\ oerr' = UnmarshalStruct(ot, dec, members).err
        /\ ocause' = UnmarshalStructCause(ot, members)
        /\ oop' = "structDecoded"
        /\ wire' = <<>>
        /\ tag' = ""
        /\ UNCHANGED <<ot, opt, accvars>>
        /\ NotSets

NextOpt ==
    \/ OptConstruct
    \/ OptMarshal
    \/ OptMarshalPtr
    \/ OptUnmarshal
    \/ OptDecode
    \/ StructMarshal
    \/ StructUnmarshal
    \/ StructDecode

SpecOpt == InitOpt /\ [][NextOpt]_vars

(***************************************************************************)
(* Claims about Optional.                                                  *)
(***************************************************************************)

C11_NoneFieldElided ==
    (oop \in {"structMarshalled", "structUnmarshalled"} /\ tag = "omitempty" /\ IsNone(opt)) =>
        /\ ~HasMember(obj, "optional")
        /\ oop = "structUnmarshalled" => IsNone(dec)

\* The literal the last deserialization handed to the Optional, trimmed.
Literal == TrimSpace(IF oop = "decoded" THEN wire ELSE Member(obj, "optional"))

\* C12: deserializing has one of three outcomes, fixed by the input.  A missing
\* field leaves the Optional as it was (None in a fresh struct); the null literal
\* gives Some(null) whatever the Optional held; any other literal that is the
\* JSON form of a value v of T gives Some(v), which is IsNotNull.
C12_DecodeOutcomes ==
    [][(oop' \in {"decoded", "structDecoded", "structUnmarshalled"}) =>
          IF oop' # "decoded" /\ ~HasMember(obj', "optional")
          THEN /\ ~oerr'
               /\ dec' = (IF oop' = "structUnmarshalled" THEN None ELSE dec)
               /\ IsNone(dec) => IsNone(dec')
          ELSE /\ (Literal' = NullBytes) => (~oerr' /\ IsSome(dec') /\ IsNull(dec'))
               /\ \A v \in TValues(ot) :
                     (Literal' # NullBytes /\ jsonMarshal(ot, v) = Literal') =>
                         (~oerr' /\ IsNotNull(dec') /\ dec'.value = <<v>>)]_vars

\* The member "optional": null of an object has been decoded into Some(null).
C12_Witness ==
    /\ oop = "structDecoded"
    /\ HasMember(obj, "optional")
    /\ Member(obj, "optional") = NullBytes
    /\ IsSome(dec)
    /\ IsNull(dec)
    /\ ~oerr

\* C13: on its own, None is serialized as null, Some(null) as null, and Some(v)
\* exactly as v is; json.Marshal(opt) and json.Marshal(&opt) give the same bytes.
C13_StandaloneBytes ==
    (oop \in {"marshalled", "marshalledPtr"}) =>
        /\ IsNone(opt) => wire = NullBytes
        /\ IsNull(opt) => wire = NullBytes
        /\ IsNotNull(opt) => wire = jsonMarshal(ot, opt.value[1])
        /\ (ot = "int" /\ opt = Some(MaxOptInt)) => wire = EncodeNat(MaxOptInt)
        /\ (ot = "string" /\ opt = Some(<<"a">>)) => wire = <<DQ, "a", DQ>>

\* Some(7) has been marshalled through a pointer.
C13_Witness ==
    /\ oop = "marshalledPtr"
    /\ ot = "int"
    /\ opt = Some(7)
    /\ wire = <<"7">>

\* C14: deserializing a literal that is not null and is not the JSON form of a
\* value of T returns an error that carries its cause, and leaves the receiving
\* Optional in the state it had before the call.
C14_DecodeFailure ==
    [][(/\ oop' \in {"decoded", "structDecoded"}
        /\ oop' = "structDecoded" => HasMember(obj', "optional")
        /\ Literal' # NullBytes
        /\ \A v \in TValues(ot) : jsonMarshal(ot, v) # Literal') =>
           (/\ oerr'
            /\ ocause' \in {"SyntaxError", "UnmarshalTypeError"}
            /\ (ot = "int" /\ Literal' = <<DQ, "a", DQ>>) => ocause' = "UnmarshalTypeError"
            /\ Literal' = <<"0", "1">> => ocause' = "SyntaxError"
            /\ dec' = dec)]_vars

\* A string literal was refused by an Optional[int] that still holds Some(7).
C14_Witness ==
    /\ oop = "decoded"
    /\ ot = "int"
    /\ wire = <<DQ, "a", DQ>>
    /\ oerr
    /\ ocause = "UnmarshalTypeError"
    /\ dec = Some(7)

(***************************************************************************)
(* Optional[int] and its accessors.  Above, a *T stands for what it points *)
(* to, as no two Optionals share a slot there.  Here copies do share one,  *)
(* so a *T is an address: an index into heap, the slots allocated so far.  *)
(***************************************************************************)
\* The values of T = int that are told apart: the zero value and the 42 of the tests.
OptVals == {0, 42}

\* var zero T, for T = int
OptZero == 0

Msgs == {"test panic", "should not panic"}

\* var opt Optional[int]
ZeroValue == [value |-> <<>>, nonEmpty |-> FALSE]

\* *o.value
Deref(h, o) == h[o.value[1]]

IsNullOrNone(o) == IsNull(o) \/ IsNone(o)

\* Faulty variant: a present value equal to the zero value counts as no value.
Unwrap_zeroIsNoValue(h, o) ==
    IF IsNotNull(o) /\ Deref(h, o) # OptZero
    THEN [v |-> Deref(h, o), ok |-> TRUE]
    ELSE [v |-> OptZero, ok |-> FALSE]

Unwrap(h, o) ==
    IF IsNotNull(o) THEN [v |-> Deref(h, o), ok |-> TRUE] ELSE [v |-> OptZero, ok |-> FALSE]

UnwrapOr(h, o, defaultValue) == IF IsNotNull(o) THEN Deref(h, o) ELSE defaultValue

\* Faulty variant: Expect hands out the slot of any Some, as ExpectPtr does; the
\* zero value stands for what a nil slot yields.
Expect_likeExpectPtr(h, o, message) ==
    IF IsSome(o)
    THEN [v |-> IF o.value = <<>> THEN OptZero ELSE Deref(h, o), panic |-> FALSE, msg |-> ""]
    ELSE [v |-> OptZero, panic |-> TRUE, msg |-> message]

\* [v, panic, msg]: the value returned, or the panic and its argument.
Expect(h, o, message) ==
    IF IsNotNull(o)
    THEN [v |-> Deref(h, o), panic |-> FALSE, msg |-> ""]
    ELSE [v |-> OptZero, panic |-> TRUE, msg |-> message]

\* Faulty variant: the default is computed before the state is looked at.
UnwrapOrElse_eager(h, o, fv) ==
    IF IsNotNull(o) THEN [v |-> Deref(h, o), calls |-> 1] ELSE [v |-> fv, calls |-> 1]

\* defaultFunc returns fv; [v, calls]: the value returned and how often
\* defaultFunc was invoked.
UnwrapOrElse(h, o, fv) ==
    IF IsNotNull(o) THEN [v |-> Deref(h, o), calls |-> 0] ELSE [v |-> fv, calls |-> 1]

\* Faulty variant: the source is left as it was.
Take_noReset(p) ==
    IF p = <<>> THEN [old |-> None, left |-> <<>>] ELSE [old |-> p[1], left |-> p]

\* Faulty variant: only the flag is cleared, the pointer stays.
Take_flagOnly(p) ==
    IF p = <<>>
    THEN [old |-> None, left |-> <<>>]
    ELSE [old |-> p[1], left |-> <<[value |-> p[1].value, nonEmpty |-> FALSE]>>]

\* Take(p) for p a *Optional[T], <<>> when nil: [old, left], what is returned and
\* what p points to afterwards.
Take(p) ==
    IF p = <<>>
    THEN [old |-> None, left |-> <<>>]
    ELSE [old |-> p[1], left |-> <<[value |-> <<>>, nonEmpty |-> FALSE]>>]

\* Faulty variant: the clone keeps the pointer of the original.
Clone_shared(h, o) == [o |-> o, h |-> h]

\* [o, h]: the clone and the heap afterwards.
Clone(h, o) ==
    IF IsNone(o) THEN [o |-> o, h |-> h]
    ELSE IF IsNotNull(o)
         THEN [o |-> [value |-> <<Len(h) + 1>>, nonEmpty |-> o.nonEmpty],
               h |-> Append(h, Deref(h, o))]
         ELSE [o |-> [value |-> <<>>, nonEmpty |-> o.nonEmpty], h |-> h]

\* predicate holds of the values in accepts.
Filter(h, o, accepts) == IF IsNotNull(o) /\ Deref(h, o) \in accepts THEN o ELSE None

\* How often Filter invokes predicate: the right operand of && is evaluated only
\* when the left one holds.
FilterInvokes(o) == IF IsNotNull(o) THEN 1 ELSE 0

\* A predicate on *T: pa.nil is its answer for nil, pa.vals the values it accepts.
PtrHolds(h, p, pa) == IF p = <<>> THEN pa.nil ELSE h[p[1]] \in pa.vals

\* Faulty variant: a nil slot is not handed to the predicate.
FilterPtr_skipsNull(h, o, pa) == IF IsNotNull(o) /\ PtrHolds(h, o.value, pa) THEN o ELSE None

FilterPtr(h, o, pa) == IF IsSome(o) /\ PtrHolds(h, o.value, pa) THEN o ELSE None

FilterPtrInvokes(o) == IF IsSome(o) THEN 1 ELSE 0

Or(o, other) == IF IsSome(o) THEN o ELSE other

\* f returns alt; it is called only when o is None.
OrElse(o, alt) == IF IsSome(o) THEN o ELSE alt

OrElseInvokes(o) == IF IsSome(o) THEN 0 ELSE 1

\* Faulty variant: when both are Some, self is returned.
Xor_preferSelf(o, other) ==
    IF IsSome(o) THEN o ELSE IF IsSome(other) THEN other ELSE None

Xor(o, other) ==
    IF IsSome(o) /\ IsNone(other) THEN o
    ELSE IF IsNone(o) /\ IsSome(other) THEN other
    ELSE None

JsonIdle ==
    /\ ot = "int"
    /\ opt = None
    /\ wire = <<>>
    /\ dec = None
    /\ oerr = FALSE
    /\ oop = "new"
    /\ StructIdle

NotOpt ==
    UNCHANGED <<qvars, seqvars, convars, wlvars, setvars, restvars, ot, opt, wire, dec, oerr, oop, structvars>>

InitAcc ==
    /\ q = New
    /\ panicked = FALSE
    /\ SeqIdle
    /\ ConIdle
    /\ sq = q
    /\ WlIdle
    /\ SetIdle
    /\ RestIdle
    /\ JsonIdle
    /\ heap = <<>>
    /\ opt1 \in {None, ZeroValue}
    /\ opt2 = None
    /\ cl = None
    /\ aop = "new"
    /\ pre = None
    /\ res = NoRes
    /\ calls = 0
    /\ oarg = 0

\* A call that builds opt1 anew.
Built(o, name) ==
    /\ opt1' = o
    /\ aop' = name
    /\ pre' = None
    /\ res' = NoRes
    /\ calls' = 0
    /\ oarg' = 0
    /\ UNCHANGED <<opt2, cl>>
    /\ NotOpt

\* A call on opt1 that leaves it alone.
Called(name, n, a) ==
    /\ aop' = name
    /\ pre' = opt1
    /\ calls' = n
    /\ oarg' = a
    /\ UNCHANGED <<heap, opt1, opt2, cl>>
    /\ NotOpt

\* opt1 = Some(v): v escapes to a new slot.
AccSome ==
    \E v \in OptVals :
        /\ Len(heap) < MaxAlloc
        /\ heap' = Append(heap, v)
        /\ Built([value |-> <<Len(heap) + 1>>, nonEmpty |-> TRUE], "Some")

\* opt1 = None[int]()
AccNone == UNCHANGED heap /\ Built(None, "None")

\* var opt1 Optional[int]
AccZero == UNCHANGED heap /\ Built(ZeroValue, "zero")

\* opt1 = Optional[int]{value: p, nonEmpty: f}, p nil or a slot in use.
AccLiteral ==
    \E p \in {<<>>} \cup {<<a>> : a \in 1..Len(heap)}, f \in BOOLEAN :
        UNCHANGED heap /\ Built([value |-> p, nonEmpty |-> f], "literal")

\* opt2 := opt1
AccCopy ==
    /\ opt2' = opt1
    /\ aop' = "copy"
    /\ pre' = opt1
    /\ res' = NoRes
    /\ calls' = 0
    /\ oarg' = 0
    /\ UNCHANGED <<heap, opt1, cl>>
    /\ NotOpt

AccPredicates ==
    /\ res' = [isNone |-> IsNone(opt1), isSome |-> IsSome(opt1), isNull |-> IsNull(opt1),
               isNotNull |-> IsNotNull(opt1), isNullOrNone |-> IsNullOrNone(opt1),
               isZero |-> IsZero(opt1)]
    /\ Called("predicates", 0, 0)

AccUnwrap ==
    /\ res' = Unwrap(heap, opt1)
    /\ Called("Unwrap", 0, 0)

AccUnwrapOr ==
    \E d \in OptVals :
        /\ res' = [v |-> UnwrapOr(heap, opt1, d)]
        /\ Called("UnwrapOr", 0, d)

AccExpect ==
    \E m \in Msgs :
        /\ res' = Expect(heap, opt1, m)
        /\ Called("Expect", 0, m)

AccUnwrapOrElse ==
    \E fv \in OptVals :
        /\ res' = [v |-> UnwrapOrElse(heap, opt1, fv).v]
        /\ Called("UnwrapOrElse", UnwrapOrElse(heap, opt1, fv).calls, fv)

\* res := Take(&opt1)
AccTake ==
    /\ opt1' = Take(<<opt1>>).left[1]
    /\ res' = [o |-> Take(<<opt1>>).old]
    /\ aop' = "Take"
    /\ pre' = opt1
    /\ calls' = 0
    /\ oarg' = 0
    /\ UNCHANGED <<heap, opt2, cl>>
    /\ NotOpt

\* var p *Optional[int]; res := Take(p)
AccTakeNil ==
    /\ res' = [o |-> Take(<<>>).old]
    /\ Called("TakeNil", 0, 0)

\* cl := opt1.Clone()
AccClone ==
    /\ Len(Clone(heap, opt1).h) <= MaxAlloc
    /\ cl' = Clone(heap, opt1).o
    /\ heap' = Clone(heap, opt1).h
    /\ aop' = "Clone"
    /\ pre' = opt1
    /\ res' = NoRes
    /\ calls' = 0
    /\ oarg' = 0
    /\ UNCHANGED <<opt1, opt2>>
    /\ NotOpt

\* ptr, _ := opt1.UnwrapPtr(); *ptr = v
AccWrite ==
    \E v \in OptVals :
        /\ IsSome(opt1)
        /\ opt1.value # <<>>
        /\ heap' = [heap EXCEPT ![opt1.value[1]] = v]
        /\ aop' = "Write"
        /\ pre' = opt1
        /\ res' = NoRes
        /\ calls' = 0
        /\ oarg' = v
        /\ UNCHANGED <<opt1, opt2, cl>>
        /\ NotOpt

\* res := opt1.Or(opt2)
AccOr ==
    /\ res' = [o |-> Or(opt1, opt2)]
    /\ Called("Or", 0, 0)

\* res := opt1.Xor(opt2)
AccXor ==
    /\ res' = [o |-> Xor(opt1, opt2)]
    /\ Called("Xor", 0, 0)

PtrPredicates == [nil : BOOLEAN, vals : {{}, {OptZero}, OptVals}]

\* res := opt1.Filter(predicate), predicate holding of the values in acc
AccFilter ==
    \E acc \in SUBSET OptVals :
        /\ res' = [o |-> Filter(heap, opt1, acc)]
        /\ Called("Filter", FilterInvokes(opt1), acc)

\* res := opt1.FilterPtr(predicate)
AccFilterPtr ==
    \E pa \in PtrPredicates :
        /\ res' = [o |-> FilterPtr(heap, opt1, pa)]
        /\ Called("FilterPtr", FilterPtrInvokes(opt1), pa)

NextAcc ==
    \/ AccOr
    \/ AccXor
    \/ AccFilter
    \/ AccFilterPtr
    \/ AccClone
    \/ AccWrite
    \/ AccSome
    \/ AccNone
    \/ AccZero
    \/ AccLiteral
    \/ AccCopy
    \/ AccPredicates
    \/ AccUnwrap
    \/ AccUnwrapOr
    \/ AccExpect
    \/ AccUnwrapOrElse
    \/ AccTake
    \/ AccTakeNil

SpecAcc == InitAcc /\ [][NextAcc]_vars

(***************************************************************************)
(* Claims about the accessors of Optional.                                 *)
(***************************************************************************)

\* The state of an Optional, read off its two fields.
StateOf(o) ==
    IF ~o.nonEmpty THEN "None" ELSE IF o.value = <<>> THEN "SomeNull" ELSE "SomeValue"

Truths(r) == Cardinality({n \in {"isNone", "isNull", "isNotNull"} : r[n]})

\* C15: for every combination of the pointer and the nonEmpty flag exactly one of
\* IsNone, IsNull, IsNotNull is true; IsSome = ~IsNone and IsNullOrNone = ~IsNotNull.
C15_ExactlyOneState ==
    aop = "predicates" =>
        /\ Truths(res) = 1
        /\ res.isNone = (StateOf(opt1) = "None")
        /\ res.isNull = (StateOf(opt1) = "SomeNull")
        /\ res.isNotNull = (StateOf(opt1) = "SomeValue")
        /\ res.isSome = ~res.isNone
        /\ res.isNullOrNone = ~res.isNotNull

\* The predicates were asked of an Optional with a slot and a cleared flag.
C15_Witness ==
    /\ aop = "predicates"
    /\ opt1.value # <<>>
    /\ ~opt1.nonEmpty
    /\ res.isNone

\* Everything that can be asked of an Optional.
Observe(h, o) ==
    [isNone |-> IsNone(o), isSome |-> IsSome(o), isNull |-> IsNull(o),
     isNotNull |-> IsNotNull(o), isNullOrNone |-> IsNullOrNone(o), isZero |-> IsZero(o),
     unwrap |-> Unwrap(h, o),
     unwrapOr |-> [d \in OptVals |-> UnwrapOr(h, o, d)],
     expect |-> [m \in Msgs |-> Expect(h, o, m)],
     unwrapOrElse |-> [fv \in OptVals |-> UnwrapOrElse(h, o, fv)],
     take |-> Take(<<o>>),
     clone |-> Clone(h, o),
     filter |-> [acc \in SUBSET OptVals |-> Filter(h, o, acc)],
     or |-> [other \in {None, SomeNull} |-> Or(o, other)],
     xor |-> [other \in {None, SomeNull} |-> Xor(o, other)],
     json |-> MarshalJSON("int", o),
     field |-> [g \in Tags |-> MarshalStruct("int", g, o)]]

\* C16: a zero-initialized Optional behaves as None() does: IsNone and IsZero are
\* true, IsSome, IsNull and IsNotNull false, and every predicate, accessor,
\* transformation and the serializer gives the result it gives on None().
C16_ZeroIsNone ==
    aop = "zero" =>
        /\ Observe(heap, opt1) = Observe(heap, None)
        /\ IsNone(opt1) /\ IsZero(opt1)
        /\ ~IsSome(opt1) /\ ~IsNull(opt1) /\ ~IsNotNull(opt1)

\* An Optional was zero-initialized while slots were in use.
C16_Witness ==
    /\ aop = "zero"
    /\ opt1 = ZeroValue
    /\ Len(heap) = MaxAlloc

\* C17: Unwrap returns (v, true) only in state Some(v) and (zero, false) in None
\* and Some(null); UnwrapOr(d) returns v in state Some(v) and d in the other two.
\* Some(zero value) counts as a value.
C17_UnwrapOnlyValue ==
    /\ aop = "Unwrap" =>
          res = (IF StateOf(pre) = "SomeValue"
                 THEN [v |-> heap[pre.value[1]], ok |-> TRUE]
                 ELSE [v |-> OptZero, ok |-> FALSE])
    /\ aop = "UnwrapOr" =>
          res.v = (IF StateOf(pre) = "SomeValue" THEN heap[pre.value[1]] ELSE oarg)

\* Unwrap on Some(zero value) has returned (zero, true).
C17_Witness ==
    /\ aop = "Unwrap"
    /\ StateOf(pre) = "SomeValue"
    /\ heap[pre.value[1]] = OptZero
    /\ res = [v |-> OptZero, ok |-> TRUE]

\* C18: Expect(msg) returns v in state Some(v) and panics with msg in states None
\* and Some(null), where it returns nothing.
C18_ExpectPanics ==
    aop = "Expect" =>
        IF StateOf(pre) = "SomeValue"
        THEN ~res.panic /\ res.v = heap[pre.value[1]]
        ELSE res.panic /\ res.msg = oarg

\* Expect has panicked on Some(null).
C18_Witness ==
    /\ aop = "Expect"
    /\ StateOf(pre) = "SomeNull"
    /\ res.panic
    /\ res.msg = "test panic"

\* C19: UnwrapOrElse(f) invokes f no time in state Some(v), returning v, and once
\* in states None and Some(null), returning what f returned; never more than once.
C19_LazyDefault ==
    aop = "UnwrapOrElse" =>
        /\ calls <= 1
        /\ IF StateOf(pre) = "SomeValue"
           THEN calls = 0 /\ res.v = heap[pre.value[1]]
           ELSE calls = 1 /\ res.v = oarg

\* f was not invoked for a Some(v) whose v differs from what f would return.
C19_Witness ==
    /\ aop = "UnwrapOrElse"
    /\ StateOf(pre) = "SomeValue"
    /\ heap[pre.value[1]] # oarg
    /\ calls = 0
    /\ res.v = heap[pre.value[1]]

\* C20: Take(&o) returns the state o had and leaves o None, so that a second Take
\* returns None; Take(nil) returns None; a copy of o made before keeps its state
\* and its value.
C20_TakeFrame ==
    [][/\ (aop' = "Take") =>
            (/\ res'.o = opt1
             /\ StateOf(opt1') = "None" /\ opt1'.value = <<>>
             /\ StateOf(opt1) = "None" => StateOf(res'.o) = "None"
             /\ opt2' = opt2
             /\ heap' = heap)
       /\ (aop' = "TakeNil") =>
            (/\ StateOf(res'.o) = "None"
             /\ <<opt1, opt2, heap>>' = <<opt1, opt2, heap>>)]_vars

\* Some(v) was taken from opt1 while its copy opt2 still holds it.
C20_Witness ==
    /\ aop = "Take"
    /\ StateOf(res.o) = "SomeValue"
    /\ opt2 = res.o
    /\ opt1 = None

\* C21: Clone keeps the state (None, Some(null), Some(v) with an equal value) and,
\* for Some(v), puts the value in a slot of its own: the clone's pointer is none
\* that existed, and a write through the original's pointer or a Take on the
\* original leaves the clone and its value as they were.
C21_CloneIndependent ==
    [][/\ (aop' = "Clone") =>
            (/\ StateOf(cl') = StateOf(opt1)
             /\ opt1' = opt1
             /\ \A a \in 1..Len(heap) : heap'[a] = heap[a]
             /\ StateOf(opt1) = "SomeNull" => cl'.value = <<>>
             /\ StateOf(opt1) = "SomeValue" =>
                   (/\ cl'.value # opt1.value
                    /\ cl'.value[1] \notin 1..Len(heap)
                    /\ heap'[cl'.value[1]] = heap[opt1.value[1]]))
       /\ (aop = "Clone" /\ aop' \in {"Write", "Take"}) =>
            (/\ cl' = cl
             /\ StateOf(cl) = "SomeValue" => heap'[cl.value[1]] = heap[cl.value[1]])]_vars

\* The original of a clone was overwritten and the two values now differ.
C21_Witness ==
    /\ aop = "Write"
    /\ StateOf(cl) = "SomeValue"
    /\ StateOf(opt1) = "SomeValue"
    /\ cl.value # opt1.value
    /\ heap[cl.value[1]] # heap[opt1.value[1]]
    /\ oarg = heap[opt1.value[1]]

\* C22: Xor(other) returns self when self is Some and other None, other when self
\* is None and other Some, and None when both are Some or both None; Or(other)
\* returns self when self is Some, Some(null) included, and other otherwise.
C22_OrXor ==
    /\ aop = "Or" => res.o = (IF StateOf(opt1) # "None" THEN opt1 ELSE opt2)
    /\ aop = "Xor" =>
          res.o = (IF StateOf(opt1) # "None" /\ StateOf(opt2) = "None" THEN opt1
                   ELSE IF StateOf(opt1) = "None" /\ StateOf(opt2) # "None" THEN opt2
                   ELSE [value |-> <<>>, nonEmpty |-> FALSE])

\* Xor of Some(null) and Some(v) has returned None.
C22_Witness ==
    /\ aop = "Xor"
    /\ StateOf(opt1) = "SomeNull"
    /\ StateOf(opt2) = "SomeValue"
    /\ StateOf(res.o) = "None"

\* C23: Filter(p) returns self in state Some(v) when p(v) holds and None otherwise,
\* invoking p for Some(v) only; FilterPtr(p) hands p the slot, nil or not,
\* whenever the state is Some, returns self when p holds and None otherwise, and
\* does not invoke p for None.
C23_Filter ==
    /\ aop = "Filter" =>
          /\ calls = (IF StateOf(opt1) = "SomeValue" THEN 1 ELSE 0)
          /\ res.o = (IF StateOf(opt1) = "SomeValue" /\ heap[opt1.value[1]] \in oarg
                      THEN opt1 ELSE [value |-> <<>>, nonEmpty |-> FALSE])
    /\ aop = "FilterPtr" =>
          /\ calls = (IF StateOf(opt1) = "None" THEN 0 ELSE 1)
          /\ res.o = (IF \/ StateOf(opt1) = "SomeNull" /\ oarg.nil
                         \/ StateOf(opt1) = "SomeValue" /\ heap[opt1.value[1]] \in oarg.vals
                      THEN opt1 ELSE [value |-> <<>>, nonEmpty |-> FALSE])

\* FilterPtr has kept a Some(null) whose predicate accepts nil.
C23_Witness ==
    /\ aop = "FilterPtr"
    /\ StateOf(opt1) = "SomeNull"
    /\ oarg.nil
    /\ calls = 1
    /\ res.o = opt1

(***************************************************************************)
(* The Stack: a slice under a mutex.  elements is the slice and spare the  *)
(* slots of its array past the length, so cap(elements) is the length of   *)
(* both together.                                                          *)
(***************************************************************************)
Zeros(n) == [i \in 1..n |-> Zero]

StackNew == [elements |-> <<>>, spare |-> <<>>]

\* make([]T, 0, capacity), for a capacity that make accepts.
StackNewWithCapacity(capacity) == [elements |-> <<>>, spare |-> Zeros(capacity)]

Backing(s) == s.elements \o s.spare

\* The capacity append picks for a full slice of n elements.
GrowCap(n) == IF n = 0 THEN 1 ELSE 2 * n

\* append(s.elements, v): in place while a spare slot is left, else into a new array.
sliceAppend(s, v) ==
    IF s.spare # <<>>
    THEN [elements |-> Append(s.elements, v), spare |-> Tail(s.spare)]
    ELSE [elements |-> Append(s.elements, v),
          spare |-> Zeros(GrowCap(Len(s.elements)) - Len(s.elements) - 1)]

Push(s, v) == [s |-> sliceAppend(s, v), v |-> Zero, ok |-> TRUE]

\* s.elements[index] = zero
popZero(s, index) == [s EXCEPT !.elements[index + 1] = Zero]

\* s.elements = s.elements[:index]
popReslice(s, index) ==
    [elements |-> SubSeq(Backing(s), 1, index),
     spare |-> SubSeq(Backing(s), index + 1, Len(Backing(s)))]

\* Faulty variant: Pop takes the oldest element.
Pop_oldest(s) ==
    LET l == Len(s.elements) IN
    IF l = 0
    THEN [s |-> s, v |-> Zero, ok |-> FALSE]
    ELSE [s |-> [elements |-> Tail(s.elements), spare |-> <<Zero>> \o s.spare],
          v |-> s.elements[1], ok |-> TRUE]

Pop(s) ==
    LET l == Len(s.elements) IN
    IF l = 0
    THEN [s |-> s, v |-> Zero, ok |-> FALSE]
    ELSE [s |-> popReslice(popZero(s, l - 1), l - 1), v |-> s.elements[l], ok |-> TRUE]

StackPeek(s) ==
    LET l == Len(s.elements) IN
    IF l = 0
    THEN [s |-> s, v |-> Zero, ok |-> FALSE]
    ELSE [s |-> s, v |-> s.elements[l], ok |-> TRUE]

StackIsEmpty(s) == [s |-> s, v |-> Zero, ok |-> (Len(s.elements) = 0)]

StackLen(s) == [s |-> s, v |-> Len(s.elements), ok |-> TRUE]

\* Every slot is zeroed, then s.elements = s.elements[:0].
StackClear(s) ==
    [s |-> popReslice([s EXCEPT !.elements = Zeros(Len(s.elements))], 0),
     v |-> Zero, ok |-> TRUE]

\* Faulty variant: Swap asks for more than two elements.
Swap_strict(s) ==
    LET l == Len(s.elements) IN
    IF l <= 2
    THEN [s |-> s, v |-> Zero, ok |-> FALSE]
    ELSE [s |-> [s EXCEPT !.elements[l] = s.elements[l - 1],
                          !.elements[l - 1] = s.elements[l]],
          v |-> Zero, ok |-> TRUE]

Swap(s) ==
    LET l == Len(s.elements) IN
    IF l < 2
    THEN [s |-> s, v |-> Zero, ok |-> FALSE]
    ELSE [s |-> [s EXCEPT !.elements[l] = s.elements[l - 1],
                          !.elements[l - 1] = s.elements[l]],
          v |-> Zero, ok |-> TRUE]

(***************************************************************************)
(* Sequential use of one stack.  abs is the stack as a sequence with the   *)
(* top last, and aret what the call returns on it.                         *)
(***************************************************************************)
StackFrame == UNCHANGED <<q, run, enq, deq, grew, setvars, optvars, collvars, extvars>>

InitStack ==
    /\ q = New
    /\ panicked = FALSE
    /\ SeqIdle
    /\ ConIdle
    /\ sq = q
    /\ WlIdle
    /\ SetIdle
    /\ OptIdle
    /\ CollIdle
    /\ ExtIdle
    /\ st \in {StackNew} \cup {StackNewWithCapacity(n) : n \in 0..MaxCapArg}
    /\ stPrev = <<>>
    /\ sloc = [t \in Threads |-> StackNew]

StackApply(r, name, a) ==
    /\ st' = r.s
    /\ ret' = [v |-> r.v, ok |-> r.ok]
    /\ op' = name
    /\ arg' = a
    /\ stPrev' = st.elements
    /\ UNCHANGED <<panicked, convars, wlvars, sloc>>
    /\ StackFrame

StPush ==
    \E v \in Values :
        /\ Len(st.elements) < MaxLen
        /\ abs' = Append(abs, v)
        /\ aret' = [v |-> Zero, ok |-> TRUE]
        /\ StackApply(Push(st, v), "Push", v)

StPop ==
    /\ abs' = IF abs = <<>> THEN abs ELSE SubSeq(abs, 1, Len(abs) - 1)
    /\ aret' = IF abs = <<>> THEN NoRet ELSE [v |-> abs[Len(abs)], ok |-> TRUE]
    /\ StackApply(Pop(st), "Pop", Zero)

StPeek ==
    /\ abs' = abs
    /\ aret' = IF abs = <<>> THEN NoRet ELSE [v |-> abs[Len(abs)], ok |-> TRUE]
    /\ StackApply(StackPeek(st), "Peek", Zero)

StIsEmpty ==
    /\ abs' = abs
    /\ aret' = [v |-> Zero, ok |-> (abs = <<>>)]
    /\ StackApply(StackIsEmpty(st), "IsEmpty", Zero)

StLen ==
    /\ abs' = abs
    /\ aret' = [v |-> Len(abs), ok |-> TRUE]
    /\ StackApply(StackLen(st), "Len", Zero)

StClear ==
    /\ abs' = <<>>
    /\ aret' = [v |-> Zero, ok |-> TRUE]
    /\ StackApply(StackClear(st), "Clear", Zero)

StSwap ==
    /\ abs' = IF Len(abs) < 2 THEN abs
              ELSE SubSeq(abs, 1, Len(abs) - 2) \o <<abs[Len(abs)], abs[Len(abs) - 1]>>
    /\ aret' = [v |-> Zero, ok |-> (Len(abs) >= 2)]
    /\ StackApply(Swap(st), "Swap", Zero)

NextStack ==
    \/ StPush
    \/ StPop
    \/ StPeek
    \/ StIsEmpty
    \/ StLen
    \/ StClear
    \/ StSwap

SpecStack == InitStack /\ [][NextStack]_vars

\* C24: the stack holds the abstract LIFO sequence after every call.  A Pop of
\* a non-empty stack returns the value pushed last among those not yet popped
\* and Len goes down by one; Peek returns the same value and changes nothing;
\* on an empty stack both return (zero, false) and change nothing.
C24_Lifo ==
    [][/\ st'.elements = abs'
       /\ (op' = "Pop" /\ abs # <<>>) =>
             /\ ret' = [v |-> abs[Len(abs)], ok |-> TRUE]
             /\ StackLen(st').v = StackLen(st).v - 1
             /\ st'.elements = SubSeq(st.elements, 1, Len(st.elements) - 1)
       /\ (op' = "Peek" /\ abs # <<>>) =>
             /\ ret' = [v |-> abs[Len(abs)], ok |-> TRUE]
             /\ st' = st
       /\ (op' \in {"Pop", "Peek"} /\ abs = <<>>) =>
             /\ ret' = [v |-> Zero, ok |-> FALSE]
             /\ st' = st]_vars

\* A Pop has returned the later of two different values and left the earlier.
C24_Witness ==
    /\ op = "Pop"
    /\ ret.ok
    /\ Len(stPrev) = 2
    /\ stPrev[1] # stPrev[2]
    /\ ret.v = stPrev[2]
    /\ st.elements = <<stPrev[1]>>

\* C25: Swap on two or more elements exchanges the top two, returns true and
\* keeps Len and the elements below; a second Swap right after it restores the
\* stack; on fewer than two elements Swap returns false and changes nothing.
C25_Swap ==
    [][/\ (op' = "Swap" /\ Len(st.elements) >= 2) =>
             LET l == Len(st.elements) IN
             /\ ret'.ok
             /\ Len(st'.elements) = l
             /\ st'.elements[l] = st.elements[l - 1]
             /\ st'.elements[l - 1] = st.elements[l]
             /\ \A i \in 1..(l - 2) : st'.elements[i] = st.elements[i]
       /\ (op' = "Swap" /\ Len(st.elements) < 2) =>
             /\ ~ret'.ok
             /\ st' = st
       /\ (op' = "Swap" /\ op = "Swap") => st'.elements = stPrev]_vars

\* A Swap has exchanged two different values on top of a third.
C25_Witness ==
    /\ op = "Swap"
    /\ ret.ok
    /\ Len(st.elements) = 3
    /\ st.elements[2] # st.elements[3]
    /\ stPrev = <<st.elements[1], st.elements[3], st.elements[2]>>

(***************************************************************************)
(* Goroutines on one stack, as in TestStackConcurrency: G goroutines push  *)
(* M values each; after wg.Wait() Len() is read; G goroutines pop M times  *)
(* each; after wg.Wait() Len() is read again.  Push and Pop are            *)
(* "s.mu.Lock(); defer s.mu.Unlock()" followed by their statements, which  *)
(* a goroutine takes one at a time.                                        *)
(***************************************************************************)
StackStepFrame ==
    /\ UNCHANGED <<op, arg, ret, abs, aret, sq, lin, got, call, done, mu, stPrev, wlvars>>
    /\ StackFrame

InitStackWork ==
    /\ q = New
    /\ panicked = FALSE
    /\ SeqIdle
    /\ ConIdle
    /\ sq = q
    /\ wl \in {w \in [G : 1..MaxThreads, M : 1..MaxM, G2 : 1..MaxThreads, M2 : 1..MaxM] :
                  w.G * w.M <= MaxEnq /\ w.G2 = w.G /\ w.M2 = w.M}
    /\ phase = "push"
    /\ lenEnq = 0
    /\ lenDeq = 0
    /\ SetIdle
    /\ OptIdle
    /\ CollIdle
    /\ ExtIdle
    /\ st = StackNew
    /\ stPrev = <<>>
    /\ sloc = [t \in Threads |-> StackNew]

\* go func() { for j := 0; j < M; j++ { s.Push(j) } }
BeginPush(t) ==
    /\ phase = "push"
    /\ t <= wl.G
    /\ pc[t] = "idle"
    /\ done[t] < wl.M
    /\ call' = [call EXCEPT ![t] = [op |-> "Push", v |-> done[t]]]
    /\ Goto(t, "lock")
    /\ UNCHANGED <<panicked, mu, tret, loc, done, got, sq, lin, seqvars, wlvars, stackvars>>
    /\ StackFrame

BeginPop(t) ==
    /\ phase = "pop"
    /\ t <= wl.G2
    /\ pc[t] = "idle"
    /\ done[t] < wl.M2
    /\ call' = [call EXCEPT ![t] = [op |-> "Pop", v |-> Zero]]
    /\ Goto(t, "lock")
    /\ UNCHANGED <<panicked, mu, tret, loc, done, got, sq, lin, seqvars, wlvars, stackvars>>
    /\ StackFrame

StackLockStep(t) ==
    /\ pc[t] = "lock"
    /\ CanLock(mu)
    /\ mu' = t
    /\ Goto(t, IF call[t].op = "Push" THEN "s242" ELSE "s251")
    /\ UNCHANGED <<panicked, call, tret, loc, done, got, sq, lin, seqvars, wlvars, stackvars>>
    /\ StackFrame

\* append(s.elements, v) is evaluated ...
PushAppendStep(t) ==
    /\ pc[t] = "s242"
    /\ sloc' = [sloc EXCEPT ![t] = sliceAppend(st, call[t].v)]
    /\ Goto(t, "s242w")
    /\ UNCHANGED <<panicked, tret, loc, st>>
    /\ StackStepFrame

\* ... and assigned to s.elements.
PushStoreStep(t) ==
    /\ pc[t] = "s242w"
    /\ st' = sloc[t]
    /\ Returns(t, Zero, TRUE)
    /\ Goto(t, "unlock")
    /\ UNCHANGED <<panicked, loc, sloc>>
    /\ StackStepFrame

\* l := len(s.elements); if l == 0 { return zero, false }
PopCheckStep(t) ==
    /\ pc[t] = "s251"
    /\ loc' = [loc EXCEPT ![t] = Len(st.elements)]
    /\ IF Len(st.elements) = 0
       THEN Returns(t, Zero, FALSE) /\ Goto(t, "unlock")
       ELSE Goto(t, "s258") /\ UNCHANGED tret
    /\ UNCHANGED <<panicked, st, sloc>>
    /\ StackStepFrame

\* index := l - 1; v := s.elements[index]; s.elements[index] = zero
PopReadStep(t) ==
    /\ pc[t] = "s258"
    /\ IF loc[t] - 1 < Len(st.elements)
       THEN /\ Returns(t, st.elements[loc[t]], TRUE)
            /\ st' = popZero(st, loc[t] - 1)
            /\ Goto(t, "s263")
            /\ UNCHANGED panicked
       ELSE /\ panicked' = TRUE
            /\ Goto(t, "unlock")
            /\ UNCHANGED <<st, tret>>
    /\ UNCHANGED <<loc, sloc>>
    /\ StackStepFrame

\* s.elements = s.elements[:index]
PopResliceStep(t) ==
    /\ pc[t] = "s263"
    /\ IF loc[t] - 1 <= Len(Backing(st))
       THEN st' = popReslice(st, loc[t] - 1) /\ UNCHANGED panicked
       ELSE panicked' = TRUE /\ UNCHANGED st
    /\ Goto(t, "unlock")
    /\ UNCHANGED <<tret, loc, sloc>>
    /\ StackStepFrame

\* wg.Wait() returns once every goroutine of the phase is done; Len() is read.
PushersDone ==
    /\ phase = "push"
    /\ \A t \in Threads : t <= wl.G => (pc[t] = "idle" /\ done[t] = wl.M)
    /\ CanLock(mu)
    /\ lenEnq' = StackLen(st).v
    /\ phase' = "pop"
    /\ done' = [t \in Threads |-> 0]
    /\ UNCHANGED <<panicked, mu, pc, call, tret, loc, got, sq, lin, seqvars, wl, lenDeq, stackvars>>
    /\ StackFrame

PoppersDone ==
    /\ phase = "pop"
    /\ \A t \in Threads : t <= wl.G2 => (pc[t] = "idle" /\ done[t] = wl.M2)
    /\ CanLock(mu)
    /\ lenDeq' = StackLen(st).v
    /\ phase' = "end"
    /\ UNCHANGED <<panicked, convars, seqvars, wl, lenEnq, stackvars>>
    /\ StackFrame

NextStackWork ==
    \/ PushersDone
    \/ PoppersDone
    \/ \E t \in Threads :
        \/ BeginPush(t)
        \/ BeginPop(t)
        \/ StackLockStep(t)
        \/ PushAppendStep(t)
        \/ PushStoreStep(t)
        \/ PopCheckStep(t)
        \/ PopReadStep(t)
        \/ PopResliceStep(t)
        \/ UnlockStep(t)

SpecStackWork == InitStackWork /\ [][NextStackWork]_vars

\* C26: after G goroutines have pushed M values each, Len() is G*M; after G
\* goroutines have then popped M times each, Len() is 0; no call panics.
C26_StackConservation ==
    /\ phase \in {"pop", "end"} => lenEnq = wl.G * wl.M
    /\ phase = "end" => lenDeq = 0
    /\ ~panicked

\* Two goroutines have pushed two values each and popped them all.
C26_Witness ==
    /\ phase = "end"
    /\ wl.G = 2
    /\ wl.M = 2
    /\ lenEnq = 4
    /\ lenDeq = 0
    /\ st.elements = <<>>

(***************************************************************************)
(* Set[T]: a Go map from the items to struct{}.  The map is the number of  *)
(* entries stored under each key; a lookup, an assignment and a delete     *)
(* find the entry whose key is == to theirs.  T is float64 here, whose ==  *)
(* is false between NaN and itself.                                        *)
(***************************************************************************)
SetKeys == {"0", "1", "2", "NaN"}

KeyZero == "0"

\* x == y on float64.
KeyEq(x, y) == x = y /\ x # "NaN"

\* make(map[T]struct{})
EmptyMap == [k \in SetKeys |-> 0]

\* _, ok := m[k]
mapHas(m, k) == \E e \in SetKeys : m[e] > 0 /\ KeyEq(e, k)

\* m[k] = struct{}{}
mapAssign(m, k) == IF mapHas(m, k) THEN m ELSE [m EXCEPT ![k] = @ + 1]

\* delete(m, k)
mapDelete(m, k) == IF mapHas(m, k) THEN [m EXCEPT ![k] = @ - 1] ELSE m

RECURSIVE mapEntries(_)
\* The keys "for item := range m" yields, each entry once.  The order is not
\* specified; no result below depends on it.
mapEntries(m) ==
    IF \A k \in SetKeys : m[k] = 0
    THEN <<>>
    ELSE LET k == CHOOSE e \in SetKeys : m[e] > 0
         IN <<k>> \o mapEntries([m EXCEPT ![k] = @ - 1])

\* len(m)
mapLen(m) == Len(mapEntries(m))

RECURSIVE mapAssignAll(_, _)
\* for _, item := range items { m[item] = struct{}{} }
mapAssignAll(m, items) ==
    IF items = <<>> THEN m ELSE mapAssignAll(mapAssign(m, Head(items)), Tail(items))

RECURSIVE mapDeleteAll(_, _)
\* for _, item := range items { delete(m, item) }
mapDeleteAll(m, items) ==
    IF items = <<>> THEN m ELSE mapDeleteAll(mapDelete(m, Head(items)), Tail(items))

\* The entries of m whose key is (want) or is not (~want) found in other.
mapSelect(m, other, want) ==
    LET Test(k) == mapHas(other, k) = want IN SelectSeq(mapEntries(m), Test)

SetAdd(m, items) == mapAssignAll(m, items)

SetNew(items) == SetAdd(EmptyMap, items)

SetRemove(m, items) == mapDeleteAll(m, items)

SetContains(m, item) == mapHas(m, item)

\* item is the key the range statement yields first.
SetPop(m, item) ==
    IF mapLen(m) = 0
    THEN [s |-> m, v |-> KeyZero, ok |-> FALSE]
    ELSE [s |-> mapDelete(m, item), v |-> item, ok |-> TRUE]

SetLen(m) == mapLen(m)

SetClear(m) == EmptyMap

SetClone(m) == mapAssignAll(EmptyMap, mapEntries(m))

SetUnion(s, other) == mapAssignAll(mapAssignAll(EmptyMap, mapEntries(s)), mapEntries(other))

SetIntersect(s, other) ==
    LET small == IF mapLen(s) > mapLen(other) THEN other ELSE s
        large == IF mapLen(s) > mapLen(other) THEN s ELSE other
    IN mapAssignAll(EmptyMap, mapSelect(small, large, TRUE))

SetDifference(s, other) == mapAssignAll(EmptyMap, mapSelect(s, other, FALSE))

SetSymmetricDifference(s, other) ==
    mapAssignAll(mapAssignAll(EmptyMap, mapSelect(s, other, FALSE)), mapSelect(other, s, FALSE))

\* len(s.m) > len(other.m) decides at once; else every key of s is looked up.
SetIsSubset(s, other) ==
    IF mapLen(s) > mapLen(other)
    THEN FALSE
    ELSE \A i \in 1..mapLen(s) : mapHas(other, mapEntries(s)[i])

SetIsSuperset(s, other) == SetIsSubset(other, s)

\* Faulty variant: Equal does not compare the lengths.
SetEqual_noLen(s, other) == \A i \in 1..mapLen(s) : mapHas(other, mapEntries(s)[i])

SetEqual(s, other) ==
    IF mapLen(s) # mapLen(other)
    THEN FALSE
    ELSE \A i \in 1..mapLen(s) : mapHas(other, mapEntries(s)[i])

(***************************************************************************)
(* AnySet[T]: a slice of items and an equality function.  T is the User of *)
(* the tests and equals compares the IDs.                                  *)
(***************************************************************************)
Users ==
    {[ID |-> 1, Name |-> "Alice"], [ID |-> 2, Name |-> "Bob"],
     [ID |-> 1, Name |-> "Alice Redux"], [ID |-> 3, Name |-> "Carol"]}

UserZero == [ID |-> 0, Name |-> ""]

userEquals(a, b) == a.ID = b.ID

containsUnsafe(items, item) == \E i \in 1..Len(items) : userEquals(items[i], item)

RECURSIVE addAll(_, _)
\* for _, item := range items { if !s.containsUnsafe(item) { append } }
addAll(s, items) ==
    IF items = <<>> THEN s
    ELSE addAll(IF containsUnsafe(s, Head(items)) THEN s ELSE Append(s, Head(items)),
                Tail(items))

\* Faulty variant: Add appends without looking.
AnyAdd_unchecked(s, items) == s \o items

AnyAdd(s, items) == addAll(s, items)

NewAny(items) == AnyAdd(<<>>, items)

\* Faulty variant: the last slot is dropped without being moved to slot i.
removeAt_noMove(s, i) == SubSeq(s, 1, Len(s) - 1)

\* s.items[i] = s.items[l-1]; s.items[l-1] = zero; s.items = s.items[:l-1]
removeAt(s, i) == SubSeq([s EXCEPT ![i] = s[Len(s)]], 1, Len(s) - 1)

\* The inner loop of Remove: the first slot equal to item is removed.
removeOne(s, item) ==
    IF containsUnsafe(s, item)
    THEN removeAt(s, CHOOSE i \in 1..Len(s) :
                        /\ userEquals(s[i], item)
                        /\ \A j \in 1..(i - 1) : ~userEquals(s[j], item))
    ELSE s

RECURSIVE removeAll(_, _)
removeAll(s, items) ==
    IF items = <<>> THEN s ELSE removeAll(removeOne(s, Head(items)), Tail(items))

AnyRemove(s, items) == removeAll(s, items)

AnyContains(s, item) == containsUnsafe(s, item)

AnyPop(s) ==
    IF Len(s) = 0
    THEN [s |-> s, v |-> UserZero, ok |-> FALSE]
    ELSE [s |-> SubSeq(s, 1, Len(s) - 1), v |-> s[Len(s)], ok |-> TRUE]

AnyLen(s) == Len(s)

AnyClear(s) == <<>>

AnyClone(s) == s

\* The items of s that other contains (want) or does not (~want).
anySelect(s, other, want) ==
    LET Test(item) == containsUnsafe(other, item) = want IN SelectSeq(s, Test)

\* Faulty variant: Union appends the other set's items without looking.
AnyUnion_concat(s, other) == s \o other

\* append(res.items, s.items...), then the items of other that res lacks.
AnyUnion(s, other) == addAll(s, other)

AnyIntersect(s, other) == anySelect(s, other, TRUE)

AnyDifference(s, other) == anySelect(s, other, FALSE)

AnySymmetricDifference(s, other) == anySelect(s, other, FALSE) \o anySelect(other, s, FALSE)

AnyIsSubset(s, other) ==
    IF Len(s) > Len(other)
    THEN FALSE
    ELSE \A i \in 1..Len(s) : containsUnsafe(other, s[i])

AnyIsSuperset(s, other) == AnyIsSubset(other, s)

AnyEqual(s, other) ==
    IF Len(s) # Len(other)
    THEN FALSE
    ELSE \A i \in 1..Len(s) : containsUnsafe(other, s[i])

(***************************************************************************)
(* Sequential use of two sets a and b of one kind.  b is as its            *)
(* constructor left it; a is also changed by Add, Remove, Pop and Clear.   *)
(* sprev is a before the last call and sres the set the last call          *)
(* returned.                                                               *)
(***************************************************************************)
KeyLists == {<<>>} \cup {<<x>> : x \in SetKeys} \cup {<<x, y>> : x, y \in SetKeys}

UserLists == {<<>>} \cup {<<x>> : x \in Users} \cup {<<x, y>> : x, y \in Users}

BinaryOps == {"Union", "Intersect", "Difference", "SymmetricDifference"}

SetBinary(name, s, other) ==
    CASE name = "Union" -> SetUnion(s, other)
      [] name = "Intersect" -> SetIntersect(s, other)
      [] name = "Difference" -> SetDifference(s, other)
      [] name = "SymmetricDifference" -> SetSymmetricDifference(s, other)

AnyBinary(name, s, other) ==
    CASE name = "Union" -> AnyUnion(s, other)
      [] name = "Intersect" -> AnyIntersect(s, other)
      [] name = "Difference" -> AnyDifference(s, other)
      [] name = "SymmetricDifference" -> AnySymmetricDifference(s, other)

InitSets ==
    /\ q = New
    /\ panicked = FALSE
    /\ SeqIdle
    /\ ConIdle
    /\ sq = q
    /\ WlIdle
    /\ SetIdle
    /\ OptIdle
    /\ StackIdle
    /\ ExtIdle
    /\ \/ /\ skind = "Set"
          /\ hm \in {[a |-> SetNew(i), b |-> SetNew(j)] :
                       i, j \in {l \in KeyLists : SetNew(l)["NaN"] <= MaxNaN}}
          /\ an = [x \in Sets |-> <<>>]
          /\ sres = EmptyMap
          /\ sprev = EmptyMap
       \/ /\ skind = "AnySet"
          /\ an \in {[a |-> NewAny(i), b |-> NewAny(j)] : i, j \in UserLists}
          /\ hm = [x \in Sets |-> EmptyMap]
          /\ sres = <<>>
          /\ sprev = <<>>

SetsFrame ==
    UNCHANGED <<qvars, abs, aret, run, enq, deq, grew, convars, wlvars, setvars, optvars,
                stackvars, skind, extvars>>

\* A call on the Set a that returns no set.
HashCall(name, a, s, r) ==
    /\ op' = name
    /\ arg' = a
    /\ hm' = [hm EXCEPT !.a = s]
    /\ ret' = r
    /\ sprev' = hm.a
    /\ sres' = EmptyMap
    /\ UNCHANGED an
    /\ SetsFrame

\* A call on the AnySet a that returns no set.
AnyCall(name, a, s, r) ==
    /\ op' = name
    /\ arg' = a
    /\ an' = [an EXCEPT !.a = s]
    /\ ret' = r
    /\ sprev' = an.a
    /\ sres' = <<>>
    /\ UNCHANGED hm
    /\ SetsFrame

HashAdd ==
    \E items \in KeyLists :
        /\ skind = "Set"
        /\ SetAdd(hm.a, items)["NaN"] <= MaxNaN
        /\ HashCall("Add", items, SetAdd(hm.a, items), NoRet)

HashRemove ==
    \E items \in KeyLists :
        /\ skind = "Set"
        /\ items # <<>>
        /\ HashCall("Remove", items, SetRemove(hm.a, items), NoRet)

HashPop ==
    \E item \in SetKeys :
        /\ skind = "Set"
        /\ mapLen(hm.a) > 0 => hm.a[item] > 0
        /\ mapLen(hm.a) = 0 => item = KeyZero
        /\ HashCall("Pop", <<>>, SetPop(hm.a, item).s,
                    [v |-> SetPop(hm.a, item).v, ok |-> SetPop(hm.a, item).ok])

HashClear ==
    /\ skind = "Set"
    /\ mapLen(hm.a) > 0
    /\ HashCall("Clear", <<>>, SetClear(hm.a), NoRet)

\* res := x.Clone(), x.Union(y), ...
CompareOps == {"IsSubset", "IsSuperset", "Equal"}

SetCompare(name, s, other) ==
    CASE name = "IsSubset" -> SetIsSubset(s, other)
      [] name = "IsSuperset" -> SetIsSuperset(s, other)
      [] name = "Equal" -> SetEqual(s, other)

AnyCompare(name, s, other) ==
    CASE name = "IsSubset" -> AnyIsSubset(s, other)
      [] name = "IsSuperset" -> AnyIsSuperset(s, other)
      [] name = "Equal" -> AnyEqual(s, other)

\* x.IsSubset(y), x.IsSuperset(y), x.Equal(y)
HashCompare ==
    \E name \in CompareOps, x, y \in Sets :
        /\ skind = "Set"
        /\ op' = name
        /\ arg' = <<x, y>>
        /\ ret' = [v |-> Zero, ok |-> SetCompare(name, hm[x], hm[y])]
        /\ sres' = EmptyMap
        /\ sprev' = EmptyMap
        /\ UNCHANGED <<hm, an>>
        /\ SetsFrame

AnySetCompare ==
    \E name \in CompareOps, x, y \in Sets :
        /\ skind = "AnySet"
        /\ op' = name
        /\ arg' = <<x, y>>
        /\ ret' = [v |-> Zero, ok |-> AnyCompare(name, an[x], an[y])]
        /\ sres' = <<>>
        /\ sprev' = <<>>
        /\ UNCHANGED <<hm, an>>
        /\ SetsFrame

HashResult ==
    \E name \in BinaryOps \cup {"Clone"}, x, y \in Sets :
        /\ skind = "Set"
        /\ name = "Clone" => y = x
        /\ sres' = IF name = "Clone" THEN SetClone(hm[x]) ELSE SetBinary(name, hm[x], hm[y])
        /\ op' = name
        /\ arg' = <<x, y>>
        /\ ret' = NoRet
        /\ sprev' = EmptyMap
        /\ UNCHANGED <<hm, an>>
        /\ SetsFrame

AnySetAdd ==
    \E items \in UserLists :
        /\ skind = "AnySet"
        /\ AnyCall("Add", items, AnyAdd(an.a, items), NoRet)

AnySetRemove ==
    \E items \in UserLists :
        /\ skind = "AnySet"
        /\ items # <<>>
        /\ AnyCall("Remove", items, AnyRemove(an.a, items), NoRet)

AnySetPop ==
    /\ skind = "AnySet"
    /\ AnyCall("Pop", <<>>, AnyPop(an.a).s, [v |-> AnyPop(an.a).v, ok |-> AnyPop(an.a).ok])

AnySetClear ==
    /\ skind = "AnySet"
    /\ Len(an.a) > 0
    /\ AnyCall("Clear", <<>>, AnyClear(an.a), NoRet)

AnySetResult ==
    \E name \in BinaryOps \cup {"Clone"}, x, y \in Sets :
        /\ skind = "AnySet"
        /\ name = "Clone" => y = x
        /\ sres' = IF name = "Clone" THEN AnyClone(an[x]) ELSE AnyBinary(name, an[x], an[y])
        /\ op' = name
        /\ arg' = <<x, y>>
        /\ ret' = NoRet
        /\ sprev' = <<>>
        /\ UNCHANGED <<hm, an>>
        /\ SetsFrame

NextSets ==
    \/ HashAdd
    \/ HashRemove
    \/ HashPop
    \/ HashClear
    \/ HashResult
    \/ AnySetAdd
    \/ AnySetRemove
    \/ AnySetPop
    \/ AnySetClear
    \/ AnySetResult
    \/ HashCompare
    \/ AnySetCompare

SpecSets == InitSets /\ [][NextSets]_vars

(***************************************************************************)
(* Claims about Set and AnySet.                                            *)
(***************************************************************************)
\* Membership in the mathematical result, from membership in the operands.
InResult(name, inA, inB) ==
    CASE name = "Union" -> inA \/ inB
      [] name = "Intersect" -> inA /\ inB
      [] name = "Difference" -> inA /\ ~inB
      [] name = "SymmetricDifference" -> inA # inB

\* == is an equivalence on the keys of m.
Reflexive(m) == \A k \in SetKeys : m[k] > 0 => KeyEq(k, k)

NoDup(s) == \A i, j \in 1..Len(s) : i # j => ~userEquals(s[i], s[j])

NoDupKeys(m) == \A k \in SetKeys : KeyEq(k, k) => m[k] <= 1

\* How many of the keys in items are NaN.
NaNs(items) == Cardinality({i \in 1..Len(items) : items[i] = "NaN"})

\* C28: the items of an AnySet are pairwise non-equal under equals: in a and b
\* after NewAny, Add, Remove, Pop and Clear and in every set returned by Clone,
\* Union, Intersect, Difference and SymmetricDifference.  Add keeps the stored
\* items as they are and where they are, changes nothing when every item given
\* is equal to a stored one, and Len counts the classes.  A Set holds no two
\* keys that are ==, and Add behaves the same with ==.
C28_NoDuplicates ==
    /\ skind = "AnySet" =>
          /\ NoDup(an.a)
          /\ NoDup(an.b)
          /\ NoDup(sres)
          /\ op = "Add" =>
                /\ SubSeq(an.a, 1, Len(sprev)) = sprev
                /\ (\A i \in 1..Len(arg) : AnyContains(sprev, arg[i])) => an.a = sprev
                /\ AnyLen(an.a) = Cardinality({u.ID : u \in Range(sprev) \cup Range(arg)})
    /\ skind = "Set" =>
          /\ NoDupKeys(hm.a)
          /\ NoDupKeys(hm.b)
          /\ NoDupKeys(sres)
          /\ op = "Add" =>
                /\ (\A i \in 1..Len(arg) : SetContains(sprev, arg[i])) => hm.a = sprev
                /\ \A k \in SetKeys : SetContains(sprev, k) => SetContains(hm.a, k)
                /\ SetLen(hm.a) =
                      SetLen(sprev) + NaNs(arg)
                      + Cardinality({k \in Range(arg) : KeyEq(k, k) /\ ~SetContains(sprev, k)})

\* Add of a user whose ID is stored under another name has changed nothing.
C28_Witness ==
    /\ skind = "AnySet"
    /\ op = "Add"
    /\ Len(arg) = 1
    /\ Len(sprev) = 2
    /\ arg[1].ID = sprev[1].ID
    /\ arg[1].Name # sprev[1].Name
    /\ an.a = sprev

\* C29: after Remove(items...) no item given is contained; every element that
\* is not equal to an item given is still there, as it was; nothing is added;
\* and Len has gone down by the number of different items given that were
\* contained, so by 0 for an item that was absent.
C29_Remove ==
    /\ (skind = "AnySet" /\ op = "Remove") =>
          /\ \A i \in 1..Len(arg) : ~AnyContains(an.a, arg[i])
          /\ \A u \in Range(sprev) :
                (\A i \in 1..Len(arg) : ~userEquals(u, arg[i])) => u \in Range(an.a)
          /\ Range(an.a) \subseteq Range(sprev)
          /\ AnyLen(an.a) =
                AnyLen(sprev) - Cardinality({u.ID : u \in {x \in Range(arg) : AnyContains(sprev, x)}})
    /\ (skind = "Set" /\ op = "Remove") =>
          /\ \A i \in 1..Len(arg) : ~SetContains(hm.a, arg[i])
          /\ \A k \in SetKeys :
                (\A i \in 1..Len(arg) : ~KeyEq(k, arg[i])) => hm.a[k] = sprev[k]
          /\ \A k \in SetKeys : hm.a[k] <= sprev[k]
          /\ SetLen(hm.a) =
                SetLen(sprev) - Cardinality({k \in Range(arg) : SetContains(sprev, k)})

\* Remove of the user in the first of three slots, given under another name:
\* the last user has moved into the first slot.
C29_Witness ==
    /\ skind = "AnySet"
    /\ op = "Remove"
    /\ Len(arg) = 1
    /\ Len(sprev) = 3
    /\ arg[1].ID = sprev[1].ID
    /\ arg[1].Name # sprev[1].Name
    /\ an.a = <<sprev[3], sprev[2]>>

\* C30: Pop on a non-empty set returns (v, true) for a v that was in the set,
\* afterwards v is not contained, Len is one less and every other element is
\* still there; Pop on an empty set returns (zero, false) and leaves it empty.
C30_PopRemovesOne ==
    /\ (skind = "AnySet" /\ op = "Pop") =>
          IF AnyLen(sprev) = 0
          THEN ret = [v |-> UserZero, ok |-> FALSE] /\ an.a = sprev
          ELSE /\ ret.ok
               /\ ret.v \in Range(sprev)
               /\ ~AnyContains(an.a, ret.v)
               /\ AnyLen(an.a) = AnyLen(sprev) - 1
               /\ Range(an.a) = Range(sprev) \ {ret.v}
    /\ (skind = "Set" /\ op = "Pop") =>
          IF SetLen(sprev) = 0
          THEN ret = [v |-> KeyZero, ok |-> FALSE] /\ hm.a = sprev
          ELSE /\ ret.ok
               /\ sprev[ret.v] > 0
               /\ ~SetContains(hm.a, ret.v)
               /\ SetLen(hm.a) = SetLen(sprev) - 1
               /\ \A k \in SetKeys \ {ret.v} : hm.a[k] = sprev[k]

\* C31: a.IsSubset(b) is true exactly when every element of a is contained in
\* b; a.IsSuperset(b) is b.IsSubset(a); a.Equal(b) is true exactly when each is
\* a subset of the other; the three calls change neither a nor b.
C31_Comparisons ==
    [][/\ (skind = "Set" /\ op' \in CompareOps) =>
             LET A == hm[arg'[1]]
                 B == hm[arg'[2]]
                 Within(X, Y) == \A k \in SetKeys : X[k] > 0 => SetContains(Y, k)
             IN /\ op' = "IsSubset" => ret'.ok = Within(A, B)
                /\ op' = "IsSuperset" => ret'.ok = SetIsSubset(B, A) /\ ret'.ok = Within(B, A)
                /\ op' = "Equal" => ret'.ok = (SetIsSubset(A, B) /\ SetIsSubset(B, A))
                /\ hm' = hm
       /\ (skind = "AnySet" /\ op' \in CompareOps) =>
             LET A == an[arg'[1]]
                 B == an[arg'[2]]
                 Within(X, Y) == \A u \in Range(X) : AnyContains(Y, u)
             IN /\ op' = "IsSubset" => ret'.ok = Within(A, B)
                /\ op' = "IsSuperset" => ret'.ok = AnyIsSubset(B, A) /\ ret'.ok = Within(B, A)
                /\ op' = "Equal" => ret'.ok = (AnyIsSubset(A, B) /\ AnyIsSubset(B, A))
                /\ an' = an]_vars

\* Two AnySets of the same two IDs, stored in different orders and under
\* different names, are Equal.
C31_Witness ==
    /\ skind = "AnySet"
    /\ op = "Equal"
    /\ arg = <<"a", "b">>
    /\ ret.ok
    /\ Len(an.a) = 2
    /\ an.a[1].ID = an.b[2].ID
    /\ an.a[2].ID = an.b[1].ID
    /\ an.a # <<an.b[2], an.b[1]>>

(***************************************************************************)
(* Range[T]: two optional boundaries, each an optional value and a flag.   *)
(* A pointer is the empty sequence (nil) or the one-element sequence of    *)
(* what it points to.                                                      *)
(***************************************************************************)
NilPtr == <<>>

Ptr(x) == <<x>>

RangeVals == -1..MaxVal

\* The orderings handed to Contains: a < b and b < a, both strict and total.
Orders == {"asc", "desc"}

less(order, a, b) == IF order = "asc" THEN a < b ELSE b < a

RangeItem(value, inclusive) == [Value |-> value, Inclusive |-> inclusive]

RangeNew(min, max) == [Min |-> min, Max |-> max]

Closed(min, max) ==
    [Min |-> Ptr(RangeItem(Ptr(min), TRUE)), Max |-> Ptr(RangeItem(Ptr(max), TRUE))]

Open(min, max) ==
    [Min |-> Ptr(RangeItem(Ptr(min), FALSE)), Max |-> Ptr(RangeItem(Ptr(max), FALSE))]

HalfOpen(min, max) ==
    [Min |-> Ptr(RangeItem(Ptr(min), TRUE)), Max |-> Ptr(RangeItem(Ptr(max), FALSE))]

GreaterThan(min) == [Min |-> Ptr(RangeItem(Ptr(min), FALSE)), Max |-> NilPtr]

AtLeast(min) == [Min |-> Ptr(RangeItem(Ptr(min), TRUE)), Max |-> NilPtr]

LessThan(max) == [Min |-> NilPtr, Max |-> Ptr(RangeItem(Ptr(max), FALSE))]

AtMost(max) == [Min |-> NilPtr, Max |-> Ptr(RangeItem(Ptr(max), TRUE))]

\* r.Min != nil && r.Min.Value != nil
IsSet(bound) == bound # NilPtr /\ bound[1].Value # NilPtr

\* Faulty variant: the exclusive boundaries are tested like the inclusive ones.
RangeContains_inclusive(r, val, order) ==
    IF IsSet(r.Min) /\ less(order, val, r.Min[1].Value[1])
    THEN FALSE
    ELSE IF IsSet(r.Max) /\ less(order, r.Max[1].Value[1], val)
         THEN FALSE
         ELSE TRUE

RangeContains(r, val, order) ==
    IF /\ IsSet(r.Min)
       /\ IF r.Min[1].Inclusive
          THEN less(order, val, r.Min[1].Value[1])
          ELSE ~less(order, r.Min[1].Value[1], val)
    THEN FALSE
    ELSE IF /\ IsSet(r.Max)
            /\ IF r.Max[1].Inclusive
               THEN less(order, r.Max[1].Value[1], val)
               ELSE ~less(order, val, r.Max[1].Value[1])
         THEN FALSE
         ELSE TRUE

ContainsOrdered(r, val) == RangeContains(r, val, "asc")

IsBounded(r) == IsSet(r.Min) /\ IsSet(r.Max)

IsAny(r) ==
    LET minUnbounded == r.Min = NilPtr \/ r.Min[1].Value = NilPtr
        maxUnbounded == r.Max = NilPtr \/ r.Max[1].Value = NilPtr
    IN minUnbounded /\ maxUnbounded

(***************************************************************************)
(* Use of one Range: it is built by a constructor and then queried.        *)
(***************************************************************************)
BinaryCtors == {"Closed", "Open", "HalfOpen"}

UnaryCtors == {"GreaterThan", "AtLeast", "LessThan", "AtMost"}

\* The *RangeItem values a caller of New can pass.
ItemPtrs ==
    {NilPtr} \cup {Ptr(RangeItem(v, i)) :
                     v \in {NilPtr} \cup {Ptr(x) : x \in RangeVals}, i \in BOOLEAN}

Construct(name, a, b) ==
    CASE name = "Closed" -> Closed(a, b)
      [] name = "Open" -> Open(a, b)
      [] name = "HalfOpen" -> HalfOpen(a, b)
      [] name = "GreaterThan" -> GreaterThan(a)
      [] name = "AtLeast" -> AtLeast(a)
      [] name = "LessThan" -> LessThan(a)
      [] name = "AtMost" -> AtMost(a)

RangeFrame ==
    UNCHANGED <<qvars, abs, aret, run, enq, deq, grew, convars, wlvars, setvars, optvars,
                stackvars, collvars, claim, qPrev, memvars>>

\* The zero value Range[int]{}.
InitRange ==
    /\ q = New
    /\ panicked = FALSE
    /\ SeqIdle
    /\ ConIdle
    /\ sq = q
    /\ WlIdle
    /\ SetIdle
    /\ OptIdle
    /\ StackIdle
    /\ CollIdle
    /\ qPrev = <<>>
    /\ MemIdle
    /\ rng = RangeNew(NilPtr, NilPtr)
    /\ rmade = <<"Range{}">>
    /\ claim = <<>>

RgConstruct ==
    \E name \in BinaryCtors \cup UnaryCtors, a, b \in RangeVals :
        /\ name \in UnaryCtors => b = a
        /\ rng' = Construct(name, a, b)
        /\ rmade' = <<name, a, b>>
        /\ op' = name
        /\ arg' = <<a, b>>
        /\ ret' = NoRet
        /\ RangeFrame

RgNew ==
    \E min, max \in ItemPtrs :
        /\ rng' = RangeNew(min, max)
        /\ rmade' = <<"New">>
        /\ op' = "New"
        /\ arg' = <<min, max>>
        /\ ret' = NoRet
        /\ RangeFrame

RgContains ==
    \E val \in RangeVals, order \in Orders :
        /\ op' = "Contains"
        /\ arg' = <<val, order>>
        /\ ret' = [v |-> Zero, ok |-> RangeContains(rng, val, order)]
        /\ UNCHANGED <<rng, rmade>>
        /\ RangeFrame

RgContainsOrdered ==
    \E val \in RangeVals :
        /\ op' = "ContainsOrdered"
        /\ arg' = <<val, "asc">>
        /\ ret' = [v |-> Zero, ok |-> ContainsOrdered(rng, val)]
        /\ UNCHANGED <<rng, rmade>>
        /\ RangeFrame

RgIsBounded ==
    /\ op' = "IsBounded"
    /\ arg' = <<>>
    /\ ret' = [v |-> Zero, ok |-> IsBounded(rng)]
    /\ UNCHANGED <<rng, rmade>>
    /\ RangeFrame

RgIsAny ==
    /\ op' = "IsAny"
    /\ arg' = <<>>
    /\ ret' = [v |-> Zero, ok |-> IsAny(rng)]
    /\ UNCHANGED <<rng, rmade>>
    /\ RangeFrame

NextRange ==
    \/ RgConstruct
    \/ RgNew
    \/ RgContains
    \/ RgContainsOrdered
    \/ RgIsBounded
    \/ RgIsAny

SpecRange == InitRange /\ [][NextRange]_vars

\* C33: under a strict total order, Contains agrees with interval membership for
\* every constructor: Closed(a,b) a <= v <= b, Open(a,b) a < v < b, HalfOpen(a,b)
\* a <= v < b, GreaterThan(a) v > a, AtLeast(a) v >= a, LessThan(b) v < b,
\* AtMost(b) v <= b; a Range for which IsAny holds contains every value.
C33_Contains ==
    op \in {"Contains", "ContainsOrdered"} =>
        LET val == arg[1]
            lt(x, y) == less(arg[2], x, y)
            le(x, y) == lt(x, y) \/ x = y
            name == rmade[1]
        IN /\ name = "Closed" => ret.ok = (le(rmade[2], val) /\ le(val, rmade[3]))
           /\ name = "Open" => ret.ok = (lt(rmade[2], val) /\ lt(val, rmade[3]))
           /\ name = "HalfOpen" => ret.ok = (le(rmade[2], val) /\ lt(val, rmade[3]))
           /\ name = "GreaterThan" => ret.ok = lt(rmade[2], val)
           /\ name = "AtLeast" => ret.ok = le(rmade[2], val)
           /\ name = "LessThan" => ret.ok = lt(val, rmade[2])
           /\ name = "AtMost" => ret.ok = le(val, rmade[2])
           /\ IsAny(rng) => ret.ok

\* HalfOpen(a, b) under the descending order: the value b is outside, and the
\* boundaries are a > b as integers.
C33_Witness ==
    /\ op = "Contains"
    /\ rmade[1] = "HalfOpen"
    /\ arg = <<rmade[3], "desc">>
    /\ rmade[2] > rmade[3]
    /\ ~ret.ok

(***************************************************************************)
(* ExistenceClaim[T]: a list of values and the flag Contains.  T is        *)
(* float64: == is KeyEq, under which NaN equals nothing; the other equals  *)
(* function compares the bits.                                             *)
(***************************************************************************)
Equalities == {"==", "bits"}

equals(kind, a, b) == IF kind = "==" THEN KeyEq(a, b) ELSE a = b

In(values) == [Values |-> values, Contains |-> TRUE]

NotIn(values) == [Values |-> values, Contains |-> FALSE]

\* Faulty variant: Check reports whether the value was found.
Check_found(e, val, kind) == \E i \in 1..Len(e.Values) : equals(kind, e.Values[i], val)

\* found is set by the first element that equals val; the loop then breaks.
Check(e, val, kind) ==
    LET found == \E i \in 1..Len(e.Values) : equals(kind, e.Values[i], val)
    IN found = e.Contains

CheckComparable(e, val) ==
    LET found == \E i \in 1..Len(e.Values) : KeyEq(e.Values[i], val)
    IN found = e.Contains

Negate(e) == [Values |-> e.Values, Contains |-> ~e.Contains]

ClaimFrame ==
    UNCHANGED <<qvars, abs, aret, run, enq, deq, grew, convars, wlvars, setvars, optvars,
                stackvars, collvars, rng, qPrev, memvars>>

\* rmade is the constructor of the claim and whether it has been negated an odd
\* number of times since.
InitClaim ==
    /\ q = New
    /\ panicked = FALSE
    /\ SeqIdle
    /\ ConIdle
    /\ sq = q
    /\ WlIdle
    /\ SetIdle
    /\ OptIdle
    /\ StackIdle
    /\ CollIdle
    /\ qPrev = <<>>
    /\ MemIdle
    /\ rng = <<>>
    /\ claim = In(<<>>)
    /\ rmade = <<"In", FALSE>>

EcIn ==
    \E values \in KeyLists :
        /\ claim' = In(values)
        /\ rmade' = <<"In", FALSE>>
        /\ op' = "In"
        /\ arg' = values
        /\ ret' = NoRet
        /\ ClaimFrame

EcNotIn ==
    \E values \in KeyLists :
        /\ claim' = NotIn(values)
        /\ rmade' = <<"NotIn", FALSE>>
        /\ op' = "NotIn"
        /\ arg' = values
        /\ ret' = NoRet
        /\ ClaimFrame

EcCheck ==
    \E val \in SetKeys, kind \in Equalities :
        /\ op' = "Check"
        /\ arg' = <<val, kind>>
        /\ ret' = [v |-> Zero, ok |-> Check(claim, val, kind)]
        /\ UNCHANGED <<claim, rmade>>
        /\ ClaimFrame

EcCheckComparable ==
    \E val \in SetKeys :
        /\ op' = "CheckComparable"
        /\ arg' = <<val, "==">>
        /\ ret' = [v |-> Zero, ok |-> CheckComparable(claim, val)]
        /\ UNCHANGED <<claim, rmade>>
        /\ ClaimFrame

\* e = e.Negate()
EcNegate ==
    /\ claim' = Negate(claim)
    /\ rmade' = <<rmade[1], ~rmade[2]>>
    /\ op' = "Negate"
    /\ arg' = <<>>
    /\ ret' = NoRet
    /\ ClaimFrame

NextClaim ==
    \/ EcIn
    \/ EcNotIn
    \/ EcCheck
    \/ EcCheckComparable
    \/ EcNegate

SpecClaim == InitClaim /\ [][NextClaim]_vars

\* Some element of the list equals val under the equality.
Among(values, val, kind) == \E x \in Range(values) : equals(kind, x, val)

\* C34: Check(v, equals) is true exactly when (some element of Values equals v)
\* is Contains, so In(values) matches the members and NotIn(values) the
\* non-members; Negate keeps Values and flips Contains, so the negated claim
\* answers every Check with the opposite and negating twice gives the original
\* claim; CheckComparable agrees with Check under ==.
C34_Check ==
    [][/\ op' = "Check" =>
             ret'.ok = (Among(claim.Values, arg'[1], arg'[2]) = claim.Contains)
       /\ op' = "In" =>
             \A val \in SetKeys, kind \in Equalities :
                 Check(claim', val, kind) = Among(arg', val, kind)
       /\ op' = "NotIn" =>
             \A val \in SetKeys, kind \in Equalities :
                 Check(claim', val, kind) = ~Among(arg', val, kind)
       /\ op' = "Negate" =>
             /\ claim'.Values = claim.Values
             /\ claim'.Contains = ~claim.Contains
             /\ \A val \in SetKeys, kind \in Equalities :
                    Check(claim', val, kind) = ~Check(claim, val, kind)
             /\ Negate(claim') = claim
       /\ op' = "CheckComparable" => ret'.ok = Check(claim, arg'[1], "==")]_vars

\* A negated In(NaN, x) matches NaN under ==, which finds no NaN, and does not
\* match it under the comparison of bits.
C34_Witness ==
    /\ rmade = <<"In", TRUE>>
    /\ Len(claim.Values) = 2
    /\ claim.Values[1] = "NaN"
    /\ op = "Check"
    /\ arg = <<"NaN", "bits">>
    /\ ~ret.ok
    /\ CheckComparable(claim, "NaN")

(***************************************************************************)
(* The representation of the sequential queue.                             *)
(***************************************************************************)
\* C35: in every reachable state 0 <= count <= capacity, 0 <= head < capacity,
\* 0 <= tail < capacity and tail = (head + count) mod capacity, and the
\* elements the queue holds are the circular span of length count from head.
C35_Span ==
    /\ q.count >= 0 /\ q.count <= Capacity(q)
    /\ q.head >= 0 /\ q.head < Capacity(q)
    /\ q.tail >= 0 /\ q.tail < Capacity(q)
    /\ q.tail = (q.head + q.count) % Capacity(q)
    /\ Contents(q) = abs

\* A full buffer of capacity 3 whose span wraps: tail has met head in the middle.
C35_Witness ==
    /\ Capacity(q) = 3
    /\ q.count = 3
    /\ q.head = 2
    /\ q.tail = 2
    /\ op = "Enqueue"

\* C36: the capacity is at least 1 in every state, NewWithCapacity(n) gives
\* max(n, 1), the capacity never decreases, and it changes only in an Enqueue
\* that starts with count = capacity, which doubles it.
C36_Capacity ==
    /\ [](/\ Capacity(q) >= 1
          /\ \A n \in -1..MaxCapArg :
                 Capacity(NewWithCapacity(n)) = IF n > 1 THEN n ELSE 1)
    /\ [][/\ Capacity(q') >= Capacity(q)
          /\ Capacity(q') # Capacity(q) => op' = "Enqueue" /\ q.count = Capacity(q)
          /\ (op' = "Enqueue" /\ q.count = Capacity(q)) => Capacity(q') = 2 * Capacity(q)
          /\ op' \in {"Dequeue", "Peek", "Len", "IsEmpty", "Clear"} =>
                 Capacity(q') = Capacity(q)]_vars

\* An Enqueue on a full queue of capacity 2 has doubled the capacity.
C36_Witness ==
    /\ op = "Enqueue"
    /\ Capacity(qPrev) = 2
    /\ qPrev.count = 2
    /\ Capacity(q) = 4
    /\ q.count = 3

\* C37: a resize copies the span in order to the front of the new buffer,
\* new[i] = old[(head + i) mod capacity] for i < count, sets head to 0 and tail
\* to count and keeps count; the Enqueue that called it stores its value at
\* index count.
C37_Resize ==
    [][(op' = "Enqueue" /\ q.count = Capacity(q)) =>
          LET g == enqGrow(q)
          IN /\ \A i \in 0..(q.count - 1) :
                    /\ g.data[i + 1] = q.data[((q.head + i) % Capacity(q)) + 1]
                    /\ q'.data[i + 1] = g.data[i + 1]
             /\ g.head = 0
             /\ g.tail = q.count
             /\ g.count = q.count
             /\ q'.data[q.count + 1] = arg'
             /\ q'.head = 0
             /\ q'.count = q.count + 1]_vars

\* A resize of a wrapped span: the oldest element was in the last slot of the
\* old buffer and is in slot 0 now, before a different one.
C37_Witness ==
    /\ op = "Enqueue"
    /\ grew = "wrapped"
    /\ qPrev.head = Capacity(qPrev) - 1
    /\ qPrev.head > 0
    /\ q.head = 0
    /\ q.data[1] = qPrev.data[qPrev.head + 1]
    /\ q.data[1] # q.data[2]
    /\ q.data[q.count] # q.data[1]

\* C38 as stated: Clear on an empty queue leaves the struct as it was.
C38_ClearNoOp == [][(op' = "Clear" /\ q.count = 0) => q' = q]_vars

\* C38: Clear on an empty queue keeps the buffer, the capacity and count = 0
\* and sets head and tail to 0 (which they need not have been); the state it
\* leaves is not changed by a second Clear.
C38_ClearEmpty ==
    [][op' = "Clear" =>
          /\ q.count = 0 =>
                /\ q'.data = q.data
                /\ q'.count = q.count
                /\ q'.head = 0
                /\ q'.tail = 0
                /\ Contents(q') = Contents(q)
          /\ Clear(q').s = q']_vars

\* Clear on a drained queue whose head and tail were not 0.
C38_Witness ==
    /\ op = "Clear"
    /\ qPrev.count = 0
    /\ qPrev.head # 0
    /\ qPrev.tail = qPrev.head
    /\ q.head = 0
    /\ q.tail = 0

(***************************************************************************)
(* The Optionals a caller can obtain: opt1, opt2, cl and the results are   *)
(* built by the constructors, the zero value and UnmarshalJSON, and by the *)
(* transformations applied to those.                                       *)
(***************************************************************************)
\* res := opt1.OrElse(func() Optional[int] { return opt2 })
AccOrElse ==
    /\ res' = [o |-> OrElse(opt1, opt2)]
    /\ Called("OrElse", OrElseInvokes(opt1), 0)

\* err := opt1.UnmarshalJSON(data): a decoded value escapes to a new slot.
AccUnmarshalJSON ==
    \E data \in Payloads :
        LET r == UnmarshalJSON("int", opt1, data)
            fresh == ~r.err /\ r.o.value # <<>>
        IN /\ fresh => Len(heap) < MaxAlloc
           /\ heap' = IF fresh THEN Append(heap, r.o.value[1]) ELSE heap
           /\ opt1' = IF fresh THEN [value |-> <<Len(heap) + 1>>, nonEmpty |-> TRUE] ELSE r.o
           /\ res' = [err |-> r.err]
           /\ aop' = "UnmarshalJSON"
           /\ pre' = opt1
           /\ calls' = 0
           /\ oarg' = data
           /\ UNCHANGED <<opt2, cl>>
           /\ NotOpt

\* The Optional values the last call returned.
Returned == {cl} \cup (IF "o" \in DOMAIN res THEN {res.o} ELSE {})

\* opt1 = o for a returned Optional o
AccStore ==
    \E o \in Returned :
        /\ opt1' = o
        /\ aop' = "store"
        /\ pre' = opt1
        /\ res' = NoRes
        /\ calls' = 0
        /\ oarg' = 0
        /\ UNCHANGED <<heap, opt2, cl>>
        /\ NotOpt

NextPublic ==
    \/ AccSome
    \/ AccNone
    \/ AccZero
    \/ AccUnmarshalJSON
    \/ AccCopy
    \/ AccStore
    \/ AccTake
    \/ AccTakeNil
    \/ AccClone
    \/ AccFilter
    \/ AccFilterPtr
    \/ AccOr
    \/ AccOrElse
    \/ AccXor

SpecPublic == InitAcc /\ [][NextPublic]_vars

\* nonEmpty == false implies the pointer is nil.
NoneIsNil(o) == ~o.nonEmpty => o.value = <<>>

\* C40: every Optional obtained from None, Some, the zero value, UnmarshalJSON
\* (whether it succeeds or fails), Take, Clone, Filter, FilterPtr, Or, OrElse
\* and Xor has a nil pointer whenever nonEmpty is false.
C40_NoneIsNil ==
    /\ NoneIsNil(opt1)
    /\ NoneIsNil(opt2)
    /\ NoneIsNil(pre)
    /\ \A o \in Returned : NoneIsNil(o)

\* Take on a decoded value: the receiver is left None with a nil pointer while
\* the returned Optional and a slot of the heap still hold the value.
C40_Witness ==
    /\ aop = "Take"
    /\ res.o.nonEmpty
    /\ res.o.value # <<>>
    /\ heap[res.o.value[1]] = 7
    /\ opt1 = None

(***************************************************************************)
(* Set and AnySet with their storage.  A set is a struct on the heap: objs *)
(* maps the structs a, b and r (the set a call returned last) to the       *)
(* reference each holds, [ptr, len]: for an AnySet the slice s.items (its  *)
(* capacity is the length of the array at ptr), for a Set the map s.m (len *)
(* is unused).  mem maps addresses to arrays and maps, sl is the slice     *)
(* ToSlice returned last and rh names the struct the last returned *Set    *)
(* points to.  An array or map that nothing refers to any more is dropped. *)
(***************************************************************************)
Objs == {"a", "b", "r"}

\* One array or map per struct, one for the slice, one being allocated.
Cells == 1..(Cardinality(Objs) + 2)

NilSlice == [ptr |-> 0, len |-> 0]

StoreUsers == {[ID |-> 1, Name |-> "Alice"], [ID |-> 2, Name |-> "Bob"]}

StoreKeys == {"0", "1"}

UserZeros(n) == [i \in 1..n |-> UserZero]

Referenced(S) == {S.objs[o].ptr : o \in Objs} \cup {S.sl.ptr}

\* The address a make or a growing append returns.
Fresh(S) == CHOOSE n \in Cells \ Referenced(S) : \A m \in Cells \ Referenced(S) : n <= m

\* What nothing refers to is dropped, and the addresses are renumbered in the
\* order a, b, r, sl of their holders: which address an allocation returns
\* cannot be observed.
Collect(S) ==
    LET P == <<S.objs["a"].ptr, S.objs["b"].ptr, S.objs["r"].ptr, S.sl.ptr>>
        first(x) == CHOOSE j \in 1..4 : P[j] = x /\ \A i \in 1..(j - 1) : P[i] # x
        rank(x) == IF x = 0 THEN 0
                   ELSE Cardinality({P[i] : i \in 1..(first(x) - 1)} \ {0}) + 1
    IN [mem |-> [n \in Cells |->
                    IF \E x \in Referenced(S) \ {0} : rank(x) = n
                    THEN S.mem[CHOOSE x \in Referenced(S) \ {0} : rank(x) = n]
                    ELSE <<>>],
        objs |-> [o \in Objs |-> [S.objs[o] EXCEPT !.ptr = rank(@)]],
        sl |-> [S.sl EXCEPT !.ptr = rank(@)],
        rh |-> S.rh]

\* s.items[:len(s.items)]
storeItems(S, o) ==
    IF S.objs[o].ptr = 0 THEN <<>> ELSE SubSeq(S.mem[S.objs[o].ptr], 1, S.objs[o].len)

\* make([]T, len, len + spare) holding items
Made(S, items, spare) ==
    [cell |-> Fresh(S), array |-> items \o UserZeros(spare)]

\* s.items = append(s.items, v)
storeAppend(S, o, v) ==
    LET h == S.objs[o]
        array == S.mem[h.ptr]
        grown == [i \in 1..GrowCap(Len(array)) |->
                     IF i <= h.len THEN array[i] ELSE IF i = h.len + 1 THEN v ELSE UserZero]
    IN IF h.len < Len(array)
       THEN [S EXCEPT !.mem[h.ptr][h.len + 1] = v, !.objs[o].len = h.len + 1]
       ELSE [S EXCEPT !.mem[Fresh(S)] = grown,
                      !.objs[o] = [ptr |-> Fresh(S), len |-> h.len + 1]]

RECURSIVE storeAddAll(_, _, _)
storeAddAll(S, o, items) ==
    IF items = <<>> THEN S
    ELSE storeAddAll(IF containsUnsafe(storeItems(S, o), Head(items))
                     THEN S
                     ELSE storeAppend(S, o, Head(items)),
                     o, Tail(items))

StoreAdd(S, o, items) == storeAddAll(S, o, items)

\* Faulty variant: the last slot keeps its item.
storeRemoveAt_noZero(S, o, i) ==
    LET h == S.objs[o]
    IN [S EXCEPT !.mem[h.ptr][i] = S.mem[h.ptr][h.len], !.objs[o].len = h.len - 1]

\* s.items[i] = s.items[l-1]; s.items[l-1] = zero; s.items = s.items[:l-1]
storeRemoveAt(S, o, i) ==
    LET h == S.objs[o]
        moved == [S.mem[h.ptr] EXCEPT ![i] = S.mem[h.ptr][h.len]]
    IN [S EXCEPT !.mem[h.ptr] = [moved EXCEPT ![h.len] = UserZero],
                 !.objs[o].len = h.len - 1]

storeRemoveOne(S, o, item) ==
    LET s == storeItems(S, o)
    IN IF containsUnsafe(s, item)
       THEN storeRemoveAt(S, o, CHOOSE i \in 1..Len(s) :
                                   /\ userEquals(s[i], item)
                                   /\ \A j \in 1..(i - 1) : ~userEquals(s[j], item))
       ELSE S

RECURSIVE storeRemoveAll(_, _, _)
storeRemoveAll(S, o, items) ==
    IF items = <<>> THEN S
    ELSE storeRemoveAll(storeRemoveOne(S, o, Head(items)), o, Tail(items))

StoreRemove(S, o, items) == storeRemoveAll(S, o, items)

\* item := s.items[l-1]; s.items[l-1] = zero; s.items = s.items[:l-1]
StorePop(S, o) ==
    LET h == S.objs[o]
    IN IF h.len = 0
       THEN [s |-> S, v |-> UserZero, ok |-> FALSE]
       ELSE [s |-> [S EXCEPT !.mem[h.ptr][h.len] = UserZero, !.objs[o].len = h.len - 1],
             v |-> S.mem[h.ptr][h.len], ok |-> TRUE]

\* for i := range s.items { s.items[i] = zero }; s.items = s.items[:0]
StoreClear(S, o) ==
    LET h == S.objs[o]
    IN [S EXCEPT !.mem[h.ptr] = [i \in 1..Len(S.mem[h.ptr]) |->
                                    IF i <= h.len THEN UserZero ELSE S.mem[h.ptr][i]],
                 !.objs[o].len = 0]

\* Faulty variant: ToSlice returns s.items itself.
StoreToSlice_internal(S, o) == [S EXCEPT !.sl = S.objs[o]]

\* res := make([]T, len(s.items)); copy(res, s.items)
StoreToSlice(S, o) ==
    LET new == Made(S, storeItems(S, o), 0)
    IN [S EXCEPT !.mem[new.cell] = new.array,
                 !.sl = [ptr |-> new.cell, len |-> Len(storeItems(S, o))]]

\* The capacity after n appends to make([]T, 0).
RECURSIVE AppendCap(_)
AppendCap(n) ==
    IF n = 0 THEN 0
    ELSE IF n - 1 < AppendCap(n - 1) THEN AppendCap(n - 1) ELSE GrowCap(AppendCap(n - 1))

\* res := &AnySet[T]{items: ...}: a struct whose slice holds items in an array of
\* its own with spare slots past them; the caller keeps the pointer in r.
ReturnsAny(S, items, spare) ==
    LET new == Made(S, items, spare)
    IN [S EXCEPT !.mem[new.cell] = new.array,
                 !.objs["r"] = [ptr |-> new.cell, len |-> Len(items)],
                 !.rh = "r"]

\* Faulty variant: the clone's slice is the slice of s.
StoreClone_sameItems(S, o) == [S EXCEPT !.objs["r"] = S.objs[o], !.rh = "r"]

\* items: make([]T, len(s.items)); copy(res.items, s.items)
StoreClone(S, o) == ReturnsAny(S, storeItems(S, o), 0)

\* items: make([]T, 0, len(s.items)+len(other.items)), then the appends
StoreUnion(S, o, p) ==
    LET items == AnyUnion(storeItems(S, o), storeItems(S, p))
    IN ReturnsAny(S, items, Len(storeItems(S, o)) + Len(storeItems(S, p)) - Len(items))

\* items: make([]T, 0), then the appends
StoreSelect(S, items) == ReturnsAny(S, items, AppendCap(Len(items)) - Len(items))

StoreBinary(name, S, o, p) ==
    CASE name = "Clone" -> StoreClone(S, o)
      [] name = "Union" -> StoreUnion(S, o, p)
      [] name = "Intersect" -> StoreSelect(S, AnyIntersect(storeItems(S, o), storeItems(S, p)))
      [] name = "Difference" -> StoreSelect(S, AnyDifference(storeItems(S, o), storeItems(S, p)))
      [] name = "SymmetricDifference" ->
             StoreSelect(S, AnySymmetricDifference(storeItems(S, o), storeItems(S, p)))

\* s := &AnySet[T]{items: make([]T, 0, len(items))}; s.Add(items...)
StoreNewAny(S, o, items) ==
    LET new == Made(S, <<>>, Len(items))
    IN StoreAdd([S EXCEPT !.mem[new.cell] = new.array,
                          !.objs[o] = [ptr |-> new.cell, len |-> 0]], o, items)

(***************************************************************************)
(* The same for Set: the cell at ptr is the map.                           *)
(***************************************************************************)
storeMap(S, o) == S.mem[S.objs[o].ptr]

MapAdd(S, o, items) == [S EXCEPT !.mem[S.objs[o].ptr] = SetAdd(@, items)]

MapRemove(S, o, items) == [S EXCEPT !.mem[S.objs[o].ptr] = SetRemove(@, items)]

MapPop(S, o, item) ==
    [s |-> [S EXCEPT !.mem[S.objs[o].ptr] = SetPop(@, item).s],
     v |-> SetPop(storeMap(S, o), item).v,
     ok |-> SetPop(storeMap(S, o), item).ok]

\* s.m = make(map[T]struct{})
MapClear(S, o) ==
    [S EXCEPT !.mem[Fresh(S)] = EmptyMap, !.objs[o] = [ptr |-> Fresh(S), len |-> 0]]

\* res := make([]T, 0, len(s.m)); for item := range s.m { res = append(res, item) }
MapToSlice(S, o) ==
    [S EXCEPT !.mem[Fresh(S)] = mapEntries(storeMap(S, o)),
              !.sl = [ptr |-> Fresh(S), len |-> mapLen(storeMap(S, o))]]

\* res := &Set[T]{m: make(map[T]struct{}, n)}, filled with the keys of m
ReturnsMap(S, m) ==
    [S EXCEPT !.mem[Fresh(S)] = m, !.objs["r"] = [ptr |-> Fresh(S), len |-> 0], !.rh = "r"]

MapBinary(name, S, o, p) ==
    IF name = "Clone"
    THEN ReturnsMap(S, SetClone(storeMap(S, o)))
    ELSE ReturnsMap(S, SetBinary(name, storeMap(S, o), storeMap(S, p)))

MapNew(S, o, items) ==
    MapAdd([S EXCEPT !.mem[Fresh(S)] = EmptyMap, !.objs[o] = [ptr |-> Fresh(S), len |-> 0]],
           o, items)

(***************************************************************************)
(* Calls on the sets a and b, on the set returned last and writes to the   *)
(* slice returned last.                                                    *)
(***************************************************************************)
StoreUserLists ==
    {<<>>} \cup {<<x>> : x \in StoreUsers} \cup {<<x, y>> : x, y \in StoreUsers}

StoreKeyLists ==
    {<<>>} \cup {<<x>> : x \in StoreKeys} \cup {<<x, y>> : x, y \in StoreKeys}

EmptyStore ==
    [mem |-> [n \in Cells |-> <<>>], objs |-> [o \in Objs |-> NilSlice],
     sl |-> NilSlice, rh |-> "none"]

\* What a caller reads through a set.
View(S, o) == IF ctype = "AnySet" THEN storeItems(S, o) ELSE storeMap(S, o)

\* What a caller reads through the slice.
SliceView(S) == IF S.sl.ptr = 0 THEN <<>> ELSE SubSeq(S.mem[S.sl.ptr], 1, S.sl.len)

\* The sets the caller holds a pointer to.
Held(S) == {"a", "b"} \cup (IF S.rh = "none" THEN {} ELSE {S.rh})

\* The sets the caller changes: the operand a and the set returned last.
Changed(S) == Held(S) \ {"b"}

\* The lists b is built from, and what the caller writes into a returned slice.
OperandUsers == {<<>>, <<[ID |-> 2, Name |-> "Bob"]>>,
                 <<[ID |-> 1, Name |-> "Alice"], [ID |-> 2, Name |-> "Bob"]>>}

OperandKeys == {<<>>, <<"1">>, <<"0", "1">>}

\* The arguments of Add and Remove.
ArgUsers == {<<x>> : x \in StoreUsers} \cup OperandUsers

ArgKeys == {<<x>> : x \in StoreKeys} \cup OperandKeys

Scribble == [ID |-> 3, Name |-> "Carol"]

KeyScribble == "2"

StoreFrame ==
    UNCHANGED <<qvars, abs, aret, run, enq, deq, grew, convars, wlvars, setvars, optvars,
                stackvars, collvars, purevars, qPrev, ctype>>

InitStore ==
    /\ q = New
    /\ panicked = FALSE
    /\ SeqIdle
    /\ ConIdle
    /\ sq = q
    /\ WlIdle
    /\ SetIdle
    /\ OptIdle
    /\ StackIdle
    /\ CollIdle
    /\ PureIdle
    /\ qPrev = <<>>
    /\ \/ /\ ctype = "AnySet"
          /\ store \in {Collect(StoreNewAny(StoreNewAny(EmptyStore, "a", i), "b", j)) :
                          i \in StoreUserLists, j \in OperandUsers}
       \/ /\ ctype = "Set"
          /\ store \in {Collect(MapNew(MapNew(EmptyStore, "a", i), "b", j)) :
                          i \in StoreKeyLists, j \in OperandKeys}

StoreCall(name, a, S, r) ==
    /\ op' = name
    /\ arg' = a
    /\ ret' = r
    /\ \E after \in {S} : store' = Collect(after)
    /\ StoreFrame

SetKinds == {"Set", "AnySet"}

KindArgs == IF ctype = "AnySet" THEN ArgUsers ELSE ArgKeys

MemAdd ==
    /\ ctype \in SetKinds
    /\ \E o \in Changed(store), items \in KindArgs :
           StoreCall("Add", <<o>>,
                     IF ctype = "AnySet" THEN StoreAdd(store, o, items)
                     ELSE MapAdd(store, o, items),
                     NoRet)

MemRemove ==
    /\ ctype \in SetKinds
    /\ \E o \in Changed(store), items \in KindArgs :
           StoreCall("Remove", <<o>>,
                     IF ctype = "AnySet" THEN StoreRemove(store, o, items)
                     ELSE MapRemove(store, o, items),
                     NoRet)

\* The keys the range statement of Set.Pop can yield first.
Yields(S, o) ==
    IF ctype = "AnySet" THEN {KeyZero}
    ELSE {k \in SetKeys : storeMap(S, o)[k] > 0 \/ mapLen(storeMap(S, o)) = 0}

MemPop ==
    /\ ctype \in SetKinds
    /\ \E o \in Changed(store) :
           \E item \in Yields(store, o) :
               LET r == IF ctype = "AnySet" THEN StorePop(store, o)
                        ELSE MapPop(store, o, item)
               IN StoreCall("Pop", <<o>>, r.s, [v |-> r.v, ok |-> r.ok])

MemClear ==
    /\ ctype \in SetKinds
    /\ \E o \in Changed(store) :
           StoreCall("Clear", <<o>>,
                     IF ctype = "AnySet" THEN StoreClear(store, o) ELSE MapClear(store, o),
                     NoRet)

\* sl = x.ToSlice()
MemToSlice ==
    /\ ctype \in SetKinds
    /\ \E o \in {"a", "b"} :
           StoreCall("ToSlice", <<o>>,
                     IF ctype = "AnySet" THEN StoreToSlice(store, o) ELSE MapToSlice(store, o),
                     NoRet)

\* sl[0] = v
MemWrite ==
    /\ ctype \in SetKinds
    /\ store.sl.len > 0
    /\ StoreCall("Write", <<"sl">>,
                 [store EXCEPT !.mem[store.sl.ptr][1] =
                                   IF ctype = "AnySet" THEN Scribble ELSE KeyScribble],
                 NoRet)

\* r = x.Clone(), r = x.Union(y), ...
MemResult ==
    /\ ctype \in SetKinds
    /\ \E name \in BinaryOps \cup {"Clone"}, o, p \in {"a", "b"} :
           /\ name = "Clone" => p = o
           /\ StoreCall(name, <<o, p>>,
                        IF ctype = "AnySet" THEN StoreBinary(name, store, o, p)
                        ELSE MapBinary(name, store, o, p),
                        NoRet)

NextStore ==
    \/ MemAdd
    \/ MemRemove
    \/ MemPop
    \/ MemClear
    \/ MemToSlice
    \/ MemWrite
    \/ MemResult

SpecStore == InitStore /\ [][NextStore]_vars

Mutators == {"Add", "Remove", "Pop", "Clear"}

\* C32: ToSlice, Clone, Union, Intersect, Difference and SymmetricDifference
\* return independent copies: Add, Remove, Pop and Clear on a set change what is
\* read through no other set and not the returned slice, writing to the
\* returned slice changes no set, and the calls that return a set or a slice
\* leave a, b and what was returned before as they were.
C32_NoAliasing ==
    [][/\ op' \in Mutators =>
             /\ \A o \in Held(store) \ {arg'[1]} : View(store', o) = View(store, o)
             /\ SliceView(store') = SliceView(store)
       /\ op' = "Write" =>
             \A o \in Held(store) : View(store', o) = View(store, o)
       /\ op' \in BinaryOps \cup {"Clone", "ToSlice"} =>
             /\ \A o \in {"a", "b"} : View(store', o) = View(store, o)
             /\ op' # "ToSlice" => SliceView(store') = SliceView(store)
             /\ op' = "ToSlice" => \A o \in Held(store) : View(store', o) = View(store, o)]_vars

\* The set a was cleared while a clone of it and a slice of it were held, both
\* still with two items.
C32_Witness ==
    /\ ctype = "AnySet"
    /\ op = "Clear"
    /\ arg = <<"a">>
    /\ store.rh = "r"
    /\ storeItems(store, "a") = <<>>
    /\ Len(storeItems(store, "r")) = 2
    /\ Len(SliceView(store)) = 2
    /\ storeItems(store, "r") = SliceView(store)

(***************************************************************************)
(* The slots of the three containers that keep their elements in a slice:  *)
(* a run uses one Queue, one Stack or the AnySets a and b.                 *)
(***************************************************************************)
InitSlots ==
    /\ panicked = FALSE
    /\ SeqIdle
    /\ ConIdle
    /\ WlIdle
    /\ SetIdle
    /\ OptIdle
    /\ CollIdle
    /\ PureIdle
    /\ qPrev = <<>>
    /\ stPrev = <<>>
    /\ sloc = [t \in Threads |-> StackNew]
    /\ \/ /\ ctype = "Queue"
          /\ q \in {New} \cup {NewWithCapacity(n) : n \in -1..MaxCapArg}
          /\ sq = q
          /\ st = StackNew
          /\ store = <<>>
       \/ /\ ctype = "Stack"
          /\ q = New
          /\ sq = q
          /\ st \in {StackNew} \cup {StackNewWithCapacity(n) : n \in 0..MaxCapArg}
          /\ store = <<>>
       \/ /\ ctype = "AnySet"
          /\ q = New
          /\ sq = q
          /\ st = StackNew
          /\ store \in {Collect(StoreNewAny(StoreNewAny(EmptyStore, "a", i), "b", j)) :
                          i \in StoreUserLists, j \in OperandUsers}

QueueEnqueue == ctype = "Queue" /\ DoEnqueue

QueueDequeue == ctype = "Queue" /\ DoDequeue

QueueClear == ctype = "Queue" /\ DoClear

StackPush == ctype = "Stack" /\ StPush

StackPop == ctype = "Stack" /\ StPop

StackSwap == ctype = "Stack" /\ StSwap

StackReset == ctype = "Stack" /\ StClear

AnyItemsAdd == ctype = "AnySet" /\ MemAdd

AnyItemsRemove == ctype = "AnySet" /\ MemRemove

AnyItemsPop == ctype = "AnySet" /\ MemPop

AnyItemsClear == ctype = "AnySet" /\ MemClear

AnyItemsResult == ctype = "AnySet" /\ MemResult

NextSlots ==
    \/ QueueEnqueue
    \/ QueueDequeue
    \/ QueueClear
    \/ StackPush
    \/ StackPop
    \/ StackSwap
    \/ StackReset
    \/ AnyItemsAdd
    \/ AnyItemsRemove
    \/ AnyItemsPop
    \/ AnyItemsClear
    \/ AnyItemsResult

SpecSlots == InitSlots /\ [][NextSlots]_vars

\* The indices of the queue's buffer that hold its elements.
LiveSpan(s) == {(s.head + k) % Capacity(s) : k \in 0..(s.count - 1)}

\* C39: a slot an element was taken from holds the zero value: every slot of
\* the queue's buffer outside the span of length count from head, every slot of
\* the stack's array past its elements, and every slot of an AnySet's array past
\* its items.
C39_ReleasedSlots ==
    /\ ctype = "Queue" =>
          \A i \in 0..(Capacity(q) - 1) : i \notin LiveSpan(q) => q.data[i + 1] = Zero
    /\ ctype = "Stack" =>
          \A i \in 1..Len(st.spare) : st.spare[i] = Zero
    /\ ctype = "AnySet" =>
          \A o \in Objs :
              store.objs[o].ptr # 0 =>
                  \A i \in (store.objs[o].len + 1)..Len(store.mem[store.objs[o].ptr]) :
                      store.mem[store.objs[o].ptr][i] = UserZero

\* A Dequeue returned a value other than zero from a slot that holds zero now,
\* with elements still queued behind it.
C39_Witness ==
    /\ ctype = "Queue"
    /\ op = "Dequeue"
    /\ ret.ok
    /\ ret.v # Zero
    /\ qPrev.data[qPrev.head + 1] = ret.v
    /\ q.data[qPrev.head + 1] = Zero
    /\ q.count > 0

\* The same for Stack.Pop.
PoppedSlotZeroed ==
    /\ ctype = "Stack"
    /\ op = "Pop"
    /\ ret.ok
    /\ ret.v # Zero
    /\ Len(st.spare) > 0
    /\ st.elements # <<>>

\* The same for AnySet.Remove of an item that was not in the last slot.
RemovedSlotZeroed ==
    /\ ctype = "AnySet"
    /\ op = "Remove"
    /\ arg = <<"a">>
    /\ store.objs["a"].len = 1
    /\ Len(store.mem[store.objs["a"].ptr]) = 2
    /\ store.mem[store.objs["a"].ptr][1].ID = 2

====
